---- MODULE Spec2Model ----
(***************************************************************************)
(* A model of the retrieval-augmented generation core of the chatbot:      *)
(*   - src/src/utils/chunker.py        MarkdownChunker                     *)
(*   - src/src/utils/text_quality.py   detect_repetition, clean_...,       *)
(*                                     validate_answer_quality, post_...   *)
(*   - src/src/services/prompt.py      RAGPromptTemplate                   *)
(*   - src/src/services/pipeline.py    RAGPipeline.retrieve/generate/run   *)
(*   - src/src/managers/qwen.py        ModelLoader, QwenManager.initialize *)
(*   - src/src/dependencies.py        get_embedding_generator,            *)
(*                                     get_vector_repository               *)
(*                                                                         *)
(* A text is a sequence of characters.  A character is a string: an ASCII  *)
(* character stands for itself, a hangul syllable is written "K_" followed *)
(* by its romanised jamo (initial+vowel, "_", final), so that "K_eo_bs" is *)
(* the single character U+C5C6.  Lengths are therefore lengths in          *)
(* characters, as len() gives them in Python.                              *)
(*                                                                         *)
(* Scores are kept in hundredths (0.5 is 50) and the ratio tests of the    *)
(* source (a / b > 0.7 and the like) are written cross-multiplied.         *)
(***************************************************************************)
EXTENDS Integers, Sequences, FiniteSets, TLC

VARIABLES
    \* ---- MarkdownChunker (one chunker object and one chunk_markdown call)
    cpc,                \* position: "new", "ctor_error", "ready", "section", "loop", "done"
    chunk_size,         \* self.chunk_size
    chunk_overlap,      \* self.chunk_overlap
    markdown_content,   \* the argument of chunk_markdown
    sections,           \* the list returned by _split_into_sections
    section_index,      \* index (1-based) of the section being chunked
    start,              \* _chunk_section's window start (0-based)
    loop_pass,          \* parity of the passes made through _chunk_section's while loop
    chunks,             \* the texts of the chunks emitted so far
    \* ---- RAGPipeline (one pipeline object, one run call at a time)
    pc,                 \* position of run
    llm_manager,        \* TRUE iff self.llm_manager is not None
    loader,             \* ModelLoader singleton: [model, tokenizer] loaded flags
    query, top_k, use_llm,
    search_results,     \* what vector_repository.search_similar returned
    filtered_results,   \* results surviving the score filter
    valid_contexts,     \* texts surviving the content filter
    generated,          \* what generate_with_context returned (NoValue if not called)
    answer,             \* the answer computed by generate / the canned answers
    result,             \* the dictionary run returns (NoValue if none)
    error,              \* the exception that left run ("" if none)
    calls,              \* how often each collaborator was invoked in this run
    \* ---- the process-wide resources and the threads that first use them
    tpc,                \* position of each thread
    ret,                \* where each thread's get_embedding_generator() returns to
    obtained,           \* the instances each thread was handed (0: none yet)
    embedding_generator,\* get_embedding_generator._instance (0: no attribute), its lock, constructions
    vector_repository,  \* get_vector_repository._instance (0: no attribute), its lock, constructions
    model_loader,       \* ModelLoader._instance (0: None), _lock, the instance's fields, loads
    \* ---- one call of a function of text_quality.py on a given text
    qpc,                \* "idle", "given", then the function that was applied
    given_text,         \* the text / answer argument
    given_args,         \* the other arguments of the call
    returned,           \* what the call returned (NoValue before it)
    returned_again,     \* what the function returned when applied to its own result
    \* ---- one call of DocumentService.upload_document
    upc,                \* position of upload_document
    save_calls,         \* how often vector_repository.save_chunks was invoked
    document,           \* the Document returned (NoDocument before the return)
    upload_error        \* the exception that left upload_document ("" if none)

chunker_vars == <<cpc, chunk_size, chunk_overlap, markdown_content, sections,
                  section_index, start, loop_pass, chunks>>
pipeline_vars == <<pc, llm_manager, loader, query, top_k, use_llm, search_results,
                   filtered_results, valid_contexts, generated, answer, result,
                   error, calls>>
singleton_vars == <<tpc, ret, obtained, embedding_generator, vector_repository,
                    model_loader>>
quality_vars == <<qpc, given_text, given_args, returned, returned_again>>
upload_vars == <<upc, save_calls, document, upload_error>>
other_vars == <<singleton_vars, quality_vars, upload_vars>>
vars == <<chunker_vars, pipeline_vars, other_vars>>

NoValue == <<"None">>   \* Python's None, where a text or a dictionary is expected

-----------------------------------------------------------------------------
(* Python's str and re primitives, over sequences of characters.           *)

Min(S) == CHOOSE x \in S : \A y \in S : x <= y
Max(S) == CHOOSE x \in S : \A y \in S : x >= y

RECURSIVE SortedSeq(_)
SortedSeq(S) == IF S = {} THEN <<>> ELSE <<Min(S)>> \o SortedSeq(S \ {Min(S)})

ToSet(seq) == {seq[i] : i \in DOMAIN seq}

WhiteSpace == {" ", "\n", "\t"}
IsSpace(c) == c \in WhiteSpace

\* Characters that are not \w.  Every other character of the model (letters,
\* digits, hangul syllables) is a word character.
NonWordChars == WhiteSpace \cup {".", "!", "?", ",", ":", ";", "[", "]", "(", ")",
                                 "#", "-", "*", "=", "'", "/"}

Upper == <<"A", "B", "C", "D", "E", "F", "G", "H", "I", "J", "K", "L", "M",
           "N", "O", "P", "Q", "R", "S", "T", "U", "V", "W", "X", "Y", "Z">>
Lower == <<"a", "b", "c", "d", "e", "f", "g", "h", "i", "j", "k", "l", "m",
           "n", "o", "p", "q", "r", "s", "t", "u", "v", "w", "x", "y", "z">>
lower_char(c) ==
    IF \E i \in DOMAIN Upper : Upper[i] = c
    THEN Lower[CHOOSE i \in DOMAIN Upper : Upper[i] = c]
    ELSE c

\* str.lower()
lower(s) == [i \in 1..Len(s) |-> lower_char(s[i])]

\* str.strip()
strip(s) ==
    LET keep == {i \in 1..Len(s) : ~IsSpace(s[i])}
    IN  IF keep = {} THEN <<>> ELSE SubSeq(s, Min(keep), Max(keep))

\* str.rstrip(chars)
rstrip(s, drop) ==
    LET keep == {i \in 1..Len(s) : s[i] \notin drop}
    IN  IF keep = {} THEN <<>> ELSE SubSeq(s, 1, Max(keep))

\* sub in s
contains(s, sub) ==
    \E i \in 0..(Len(s) - Len(sub)) : SubSeq(s, i + 1, i + Len(sub)) = sub

\* s.startswith(sub)
startswith(s, sub) == Len(s) >= Len(sub) /\ SubSeq(s, 1, Len(sub)) = sub

\* s[a:b] with 0-based a, b (a negative index counts from the end)
slice(s, a, b) ==
    LET lo == IF a < 0 THEN (IF Len(s) + a < 0 THEN 0 ELSE Len(s) + a) ELSE a
        hi == IF b < 0 THEN (IF Len(s) + b < 0 THEN 0 ELSE Len(s) + b)
              ELSE IF b > Len(s) THEN Len(s) ELSE b
    IN  SubSeq(s, lo + 1, hi)

\* s.rfind(c, a, b): the highest 0-based index in [a, b) holding c, or -1
rfind(s, c, a, b) ==
    LET hi   == IF b > Len(s) THEN Len(s) ELSE b
        hits == {i \in a..(hi - 1) : i >= 0 /\ s[i + 1] = c}
    IN  IF hits = {} THEN -1 ELSE Max(hits)

\* The maximal runs of characters outside the set breaks, in order.
Runs(s, breaks) ==
    LET first == {i \in 1..Len(s) : s[i] \notin breaks /\ (i = 1 \/ s[i - 1] \in breaks)}
        last(i) == Min({j \in i..Len(s) : j = Len(s) \/ s[j + 1] \in breaks})
        order == SortedSeq(first)
    IN  [k \in 1..Len(order) |-> SubSeq(s, order[k], last(order[k]))]

\* str.split() with no argument: the whitespace-separated words
split(s) == Runs(s, WhiteSpace)

\* re.findall(r'\b\w+\b', s): the maximal runs of word characters
findall_words(s) == Runs(s, NonWordChars)

\* str.split(sep) for a one-character separator: always at least one piece
split_on(s, sep) ==
    LET at == SortedSeq({i \in 1..Len(s) : s[i] = sep})
        lo(k) == IF k = 1 THEN 1 ELSE at[k - 1] + 1
        hi(k) == IF k = Len(at) + 1 THEN Len(s) ELSE at[k] - 1
    IN  [k \in 1..(Len(at) + 1) |-> SubSeq(s, lo(k), hi(k))]

\* sep.join(list)
RECURSIVE join(_, _)
join(sep, list) ==
    IF list = <<>> THEN <<>>
    ELSE IF Len(list) = 1 THEN list[1]
    ELSE list[1] \o sep \o join(sep, Tail(list))

Terminators == {".", "!", "?"}

\* re.split(r'([.!?]\s+)', s): pieces and the delimiters between them,
\* interleaved: <<piece, delimiter, piece, ..., piece>>.  A delimiter is a
\* terminator followed by all the whitespace after it.
re_split_keep(s) ==
    LET dstart == {i \in 1..(Len(s) - 1) : s[i] \in Terminators /\ IsSpace(s[i + 1])}
        dend(i) == Min({j \in (i + 1)..Len(s) : j = Len(s) \/ ~IsSpace(s[j + 1])})
        at == SortedSeq(dstart)
        n  == Len(at)
        lo(k) == IF k = 1 THEN 1 ELSE dend(at[k - 1]) + 1
        hi(k) == IF k = n + 1 THEN Len(s) ELSE at[k] - 1
    IN  [j \in 1..(2 * n + 1) |->
            IF j % 2 = 1 THEN SubSeq(s, lo((j + 1) \div 2), hi((j + 1) \div 2))
            ELSE SubSeq(s, at[j \div 2], dend(at[j \div 2]))]

\* re.split(r'[.!?]\s+', s): the pieces alone
re_split(s) ==
    LET both == re_split_keep(s)
    IN  [k \in 1..((Len(both) + 1) \div 2) |-> both[2 * k - 1]]

-----------------------------------------------------------------------------
(* src/src/utils/text_quality.py                                           *)

MIN_REPEAT_LENGTH == 20

\* detect_repetition(text, min_repeat_length): the loop returns True at the
\* first pair of adjacent sentences that are equal or share more than 70% of
\* their words, so it returns True iff some pair does.
detect_repetition(text, min_repeat_length) ==
    IF text = <<>> \/ Len(text) < min_repeat_length * 2 THEN FALSE
    ELSE
        LET sentences == re_split(text)
            similar(i) ==
                /\ Len(sentences[i]) >= min_repeat_length
                /\ LET current   == strip(sentences[i])
                       next_sent == strip(sentences[i + 1])
                       common_length ==
                           Cardinality(ToSet(split(current)) \cap ToSet(split(next_sent)))
                       total_words ==
                           IF Len(split(current)) >= Len(split(next_sent))
                           THEN Len(split(current)) ELSE Len(split(next_sent))
                   IN  \/ current = next_sent
                       \/ /\ Len(current) > 0
                          /\ Len(next_sent) > 0
                          /\ total_words > 0
                          /\ common_length * 10 > 7 * total_words
            words == split(text)
            count(w) == Cardinality({i \in DOMAIN words : words[i] = w})
            max_count == IF words = <<>> THEN 0 ELSE Max({count(w) : w \in ToSet(words)})
        IN  \/ \E i \in 1..(Len(sentences) - 1) : similar(i)
            \/ Len(words) > 10 /\ max_count * 10 > 3 * Len(words)

\* The body of clean_repetitive_text's for loop, from the 1-based index i of
\* a piece of sentences (the source's i + 1): cleaned is ''.join of the
\* pieces kept so far, seen the stripped sentences kept so far.
RECURSIVE clean_loop(_, _, _, _)
clean_loop(sentences, i, cleaned, seen) ==
    IF i > Len(sentences) THEN cleaned
    ELSE
        LET sentence == strip(sentences[i])
            is_duplicate ==
                \E seen_sent \in seen :
                    LET current_words == ToSet(split(sentence))
                        seen_words    == ToSet(split(seen_sent))
                    IN  /\ Cardinality(current_words) > 0
                        /\ Cardinality(seen_words) > 0
                        /\ Cardinality(current_words \cap seen_words) * 10
                               > 8 * Cardinality(current_words \cup seen_words)
        IN  IF sentence = <<>> \/ is_duplicate
            THEN clean_loop(sentences, i + 2, cleaned, seen)
            ELSE clean_loop(sentences, i + 2,
                            cleaned \o sentences[i]
                                    \o (IF i + 1 <= Len(sentences)
                                        THEN sentences[i + 1] ELSE <<>>),
                            seen \cup {sentence})

\* result[-1] in '.!?'
EndsSentence(s) == s # <<>> /\ s[Len(s)] \in Terminators

\* the end of clean_repetitive_text, lines 108-120: res is the joined and
\* stripped text; an unfinished last sentence loses its trailing periods
finish_last_sentence(res) ==
    LET last_sentence ==
            IF contains(res, <<".">>)
            THEN split_on(res, ".")[Len(split_on(res, "."))]
            ELSE res
        trimmed == rstrip(rstrip(res, {"."}), WhiteSpace)
    IN  IF res # <<>> /\ ~EndsSentence(res) /\ Len(strip(last_sentence)) > 10
        THEN IF trimmed # <<>> /\ ~EndsSentence(trimmed)
             THEN trimmed \o <<".">> ELSE trimmed
        ELSE res

clean_repetitive_text(text) ==
    IF text = <<>> THEN text
    ELSE finish_last_sentence(strip(clean_loop(re_split_keep(text), 1, <<>>, {})))

STOPWORDS ==
    {<<"K_je", "K_go_ng">>, <<"K_mu_n", "K_seo">>, <<"K_e", "K_seo">>,
     <<"K_ji_l", "K_mu_n">>, <<"K_e">>, <<"K_dae", "K_ha_n">>, <<"K_jeo_ng", "K_bo">>,
     <<"K_reu_l">>, <<"K_eu_l">>, <<"K_i">>, <<"K_ga">>, <<"K_neu_n">>, <<"K_eu_n">>,
     <<"K_ui">>, <<"K_wa">>, <<"K_gwa">>, <<"K_do">>, <<"K_ro">>, <<"K_eu", "K_ro">>,
     <<"K_su">>, <<"K_i_ss">>, <<"K_eo_bs">>, <<"K_geo_s">>, <<"K_deu_ng">>,
     <<"K_mi_ch">>, <<"K_tto", "K_neu_n">>, <<"K_geu", "K_ri", "K_go">>}

\* '없', '찾을 수 없', '포함되어 있지 않', '설명이 없다', '정보가 없다'
PIPELINE_NEGATIVE_PHRASES ==
    {<<"K_eo_bs">>,
     <<"K_cha_j", "K_eu_l", " ", "K_su", " ", "K_eo_bs">>,
     <<"K_po", "K_ha_m", "K_doe", "K_eo", " ", "K_i_ss", "K_ji", " ", "K_a_nh">>,
     <<"K_seo_l", "K_myeo_ng", "K_i", " ", "K_eo_bs", "K_da">>,
     <<"K_jeo_ng", "K_bo", "K_ga", " ", "K_eo_bs", "K_da">>}

\* the list above and '관련 정보가 없다'
NEGATIVE_PHRASES ==
    PIPELINE_NEGATIVE_PHRASES \cup
    {<<"K_gwa_n", "K_ryeo_n", " ", "K_jeo_ng", "K_bo", "K_ga", " ", "K_eo_bs", "K_da">>}

\* validate_answer_quality letting every answer with a negative phrase pass
\* the overlap test
validate_answer_quality_lenient_refusals(answer_in, min_length, max_length, contexts) ==
    IF answer_in = <<>> \/ strip(answer_in) = <<>>
    THEN [is_valid |-> FALSE, error |-> "Answer is empty"]
    ELSE
        LET ans == strip(answer_in)
            meaningful_answer_words == ToSet(findall_words(lower(ans))) \ STOPWORDS
            meaningful_context_words ==
                ToSet(findall_words(lower(join(<<" ">>, contexts)))) \ STOPWORDS
            common_words == meaningful_answer_words \cap meaningful_context_words
            low_overlap ==
                Cardinality(common_words) * 5 < Cardinality(meaningful_answer_words)
            has_negative_phrase == \E phrase \in NEGATIVE_PHRASES : contains(ans, phrase)
        IN  IF Len(ans) < min_length
            THEN [is_valid |-> FALSE, error |-> "Answer is too short"]
            ELSE IF Len(ans) > max_length
            THEN [is_valid |-> FALSE, error |-> "Answer is too long"]
            ELSE IF detect_repetition(ans, MIN_REPEAT_LENGTH)
            THEN [is_valid |-> FALSE, error |-> "Answer contains repetitive content"]
            ELSE IF contexts # <<>> /\ Cardinality(meaningful_answer_words) > 0
                    /\ ~has_negative_phrase /\ low_overlap
            THEN [is_valid |-> FALSE,
                  error |-> "Answer contains too many words not found in context"]
            ELSE [is_valid |-> TRUE, error |-> ""]

\* validate_answer_quality: [is_valid, error]; error names the message
\* returned ("" for None).  contexts = <<>> stands for None and for [].
validate_answer_quality(answer_in, min_length, max_length, contexts) ==
    IF answer_in = <<>> \/ strip(answer_in) = <<>>
    THEN [is_valid |-> FALSE, error |-> "Answer is empty"]
    ELSE
        LET ans == strip(answer_in)
            answer_lower == lower(ans)
            context_text == lower(join(<<" ">>, contexts))
            answer_words  == ToSet(findall_words(answer_lower))
            context_words == ToSet(findall_words(context_text))
            meaningful_answer_words  == answer_words \ STOPWORDS
            meaningful_context_words == context_words \ STOPWORDS
            common_words == meaningful_answer_words \cap meaningful_context_words
            \* overlap_ratio < 0.2
            low_overlap ==
                Cardinality(common_words) * 5 < Cardinality(meaningful_answer_words)
            has_negative_phrase == \E phrase \in NEGATIVE_PHRASES : contains(ans, phrase)
        IN  IF Len(ans) < min_length
            THEN [is_valid |-> FALSE, error |-> "Answer is too short"]
            ELSE IF Len(ans) > max_length
            THEN [is_valid |-> FALSE, error |-> "Answer is too long"]
            ELSE IF detect_repetition(ans, MIN_REPEAT_LENGTH)
            THEN [is_valid |-> FALSE, error |-> "Answer contains repetitive content"]
            ELSE IF contexts # <<>> /\ Cardinality(meaningful_answer_words) > 0
                    /\ has_negative_phrase /\ low_overlap
            THEN [is_valid |-> FALSE,
                  error |-> "Answer claims information not found but has very low context overlap"]
            ELSE IF contexts # <<>> /\ Cardinality(meaningful_answer_words) > 0
                    /\ ~has_negative_phrase /\ low_overlap
            THEN [is_valid |-> FALSE,
                  error |-> "Answer contains too many words not found in context"]
            ELSE [is_valid |-> TRUE, error |-> ""]

\* The body of post_process_answer's for loop, from the 1-based index i:
\* kept is ''.join(result), current_length the summed length of the
\* sentences (delimiters not counted) kept so far.
RECURSIVE truncate_loop(_, _, _, _, _)
truncate_loop(sentences, i, kept, current_length, max_length) ==
    IF i > Len(sentences) THEN kept
    ELSE IF current_length + Len(sentences[i]) > max_length THEN kept
    ELSE truncate_loop(sentences, i + 2,
                       kept \o sentences[i]
                            \o (IF i + 1 <= Len(sentences) THEN sentences[i + 1] ELSE <<>>),
                       current_length + Len(sentences[i]), max_length)

\* post_process_answer, lines 214-234: the cut of a cleaned text at max_length
limit_length(cleaned, max_length) ==
    IF Len(cleaned) > max_length
    THEN strip(truncate_loop(re_split_keep(cleaned), 1, <<>>, 0, max_length))
    ELSE cleaned

post_process_answer(answer_in, max_length) ==
    IF answer_in = <<>> THEN answer_in
    ELSE limit_length(clean_repetitive_text(answer_in), max_length)

-----------------------------------------------------------------------------
(* src/src/services/prompt.py                                              *)

\* SIMPLE_RESPONSE_PROMPT, cut at its two fields:
\*   "질문: " {query} "\n\n제공된 문서에서 찾은 관련 정보:\n\n" {contexts}
\*   "\n\n참고: 위 정보는 제공된 문서에서 추출한 내용입니다. 더 정확한 답변을
\*   원하시면 LLM을 사용하는 옵션을 활성화해주세요."
SIMPLE_RESPONSE_HEAD == <<"K_ji_l", "K_mu_n", ":", " ">>
SIMPLE_RESPONSE_MID ==
    <<"\n", "\n", "K_je", "K_go_ng", "K_doe_n", " ", "K_mu_n", "K_seo", "K_e", "K_seo",
      " ", "K_cha_j", "K_eu_n", " ", "K_gwa_n", "K_ryeo_n", " ", "K_jeo_ng", "K_bo",
      ":", "\n", "\n">>
SIMPLE_RESPONSE_TAIL ==
    <<"\n", "\n", "K_cha_m", "K_go", ":", " ", "K_wi", " ", "K_jeo_ng", "K_bo",
      "K_neu_n", " ", "K_je", "K_go_ng", "K_doe_n", " ", "K_mu_n", "K_seo", "K_e",
      "K_seo", " ", "K_chu", "K_chu_l", "K_ha_n", " ", "K_nae", "K_yo_ng", "K_i_b",
      "K_ni", "K_da", ".", " ", "K_deo", " ", "K_jeo_ng", "K_hwa_g", "K_ha_n", " ",
      "K_da_b", "K_byeo_n", "K_eu_l", " ", "K_wo_n", "K_ha", "K_si", "K_myeo_n", " ",
      "L", "L", "M", "K_eu_l", " ", "K_sa", "K_yo_ng", "K_ha", "K_neu_n", " ", "K_o_b",
      "K_syeo_n", "K_eu_l", " ", "K_hwa_l", "K_seo_ng", "K_hwa", "K_hae", "K_ju",
      "K_se", "K_yo", ".">>

\* "제공된 문서에서 질문과 관련된 정보를 찾을 수 없습니다."
NO_INFORMATION_ANSWER ==
    <<"K_je", "K_go_ng", "K_doe_n", " ", "K_mu_n", "K_seo", "K_e", "K_seo", " ",
      "K_ji_l", "K_mu_n", "K_gwa", " ", "K_gwa_n", "K_ryeo_n", "K_doe_n", " ",
      "K_jeo_ng", "K_bo", "K_reu_l", " ", "K_cha_j", "K_eu_l", " ", "K_su", " ",
      "K_eo_bs", "K_seu_b", "K_ni", "K_da", ".">>

\* str(i) for the document numbers 1..3
Digits == <<"1", "2", "3", "4">>

\* the cleaning of one context in build_simple_response's loop
clean_context(ctx, max_context_length) ==
    LET stripped == strip(ctx)
        NonBlank(line) == strip(line) # <<>>
        kept  == SelectSeq(split_on(stripped, "\n"), NonBlank)
        lines == [k \in 1..Len(kept) |-> strip(kept[k])]
        cleaned == join(<<"\n">>, lines)
    IN  IF Len(cleaned) > max_context_length \div 3
        THEN slice(cleaned, 0, max_context_length \div 3) \o <<".", ".", ".">>
        ELSE cleaned

\* build_simple_response with line 140 reading contexts[:4]
build_simple_response_top_four(q, contexts, max_context_length) ==
    IF contexts = <<>> THEN NO_INFORMATION_ANSWER
    ELSE
        LET top_contexts == SubSeq(contexts, 1, IF Len(contexts) < 4 THEN Len(contexts) ELSE 4)
            cleaned_contexts ==
                [i \in 1..Len(top_contexts) |->
                    <<"[", "K_mu_n", "K_seo", " ", Digits[i], "]", "\n">>
                        \o clean_context(top_contexts[i], max_context_length)]
            combined_context == join(<<"\n", "\n">>, cleaned_contexts)
        IN  SIMPLE_RESPONSE_HEAD \o q \o SIMPLE_RESPONSE_MID
                \o combined_context \o SIMPLE_RESPONSE_TAIL

build_simple_response(q, contexts, max_context_length) ==
    IF contexts = <<>> THEN NO_INFORMATION_ANSWER
    ELSE
        LET top_contexts == SubSeq(contexts, 1, IF Len(contexts) < 3 THEN Len(contexts) ELSE 3)
            cleaned_contexts ==
                [i \in 1..Len(top_contexts) |->
                    <<"[", "K_mu_n", "K_seo", " ", Digits[i], "]", "\n">>
                        \o clean_context(top_contexts[i], max_context_length)]
            combined_context == join(<<"\n", "\n">>, cleaned_contexts)
        IN  SIMPLE_RESPONSE_HEAD \o q \o SIMPLE_RESPONSE_MID
                \o combined_context \o SIMPLE_RESPONSE_TAIL

MAX_CONTEXT_LENGTH == 1000

-----------------------------------------------------------------------------
(* src/src/utils/chunker.py                                                *)

\* re.match(r"^#{1,6}\s+", line)
is_header(line) ==
    \E k \in 1..6 :
        /\ Len(line) > k
        /\ \A i \in 1..k : line[i] = "#"
        /\ IsSpace(line[k + 1])

\* the loop of _split_into_sections from line i on; current_section is the
\* list of the lines of the section being collected
RECURSIVE split_lines(_, _, _, _)
split_lines(lines, i, done, current_section) ==
    IF i > Len(lines)
    THEN IF current_section # <<>>
         THEN Append(done, join(<<"\n">>, current_section)) ELSE done
    ELSE IF (is_header(lines[i]) \/ strip(lines[i]) = <<"-", "-", "-">>)
            /\ current_section # <<>>
    THEN split_lines(lines, i + 1, Append(done, join(<<"\n">>, current_section)),
                     <<lines[i]>>)
    ELSE split_lines(lines, i + 1, done, Append(current_section, lines[i]))

_split_into_sections(markdown) == split_lines(split_on(markdown, "\n"), 1, <<>>, <<>>)

\* Bounds of the chunker's inputs.
MaxChunkSize == 3
MaxTextLen == 4
ChunkerAlphabet == {"a", ".", " ", "\n", "#", "-"}
ChunkerTexts == UNION {[1..n -> ChunkerAlphabet] : n \in 0..MaxTextLen}

\* Bound of the number of threads making the first use of the resources.
NumThreads == 2
Threads == 1..NumThreads

\* No thread has started and no resource exists.
SingletonsIdle ==
    /\ tpc = [t \in Threads |-> "start"]
    /\ ret = [t \in Threads |-> "none"]
    /\ obtained = [t \in Threads |-> [eg |-> 0, vr |-> 0, ml |-> 0]]
    /\ embedding_generator = [instance |-> 0, lock |-> 0, built |-> 0]
    /\ vector_repository = [instance |-> 0, lock |-> 0, built |-> 0]
    /\ model_loader = [instance |-> 0, lock |-> 0, created |-> 0, initialized |-> FALSE,
                       model |-> FALSE, tokenizer |-> FALSE, loads |-> 0]

\* The arguments other than the text, before a call has chosen them.
NoArgs == [min_length |-> 0, max_length |-> 0, contexts |-> <<>>]

\* No function of text_quality.py is being exercised.
QualityIdle ==
    /\ qpc = "idle"
    /\ given_text = <<>> /\ given_args = NoArgs
    /\ returned = NoValue /\ returned_again = NoValue

\* No Document has been returned.
NoDocument == [returned |-> FALSE, chunks_count |-> 0]

\* No upload is in progress.
UploadIdle ==
    /\ upc = "idle" /\ save_calls = 0 /\ document = NoDocument /\ upload_error = ""

OthersIdle == SingletonsIdle /\ QualityIdle /\ UploadIdle

\* The pipeline's variables while no run is in progress.
PipelineIdle ==
    /\ pc = "idle"
    /\ query = <<>> /\ top_k = 0 /\ use_llm = FALSE
    /\ search_results = <<>> /\ filtered_results = <<>> /\ valid_contexts = <<>>
    /\ generated = NoValue /\ answer = NoValue /\ result = NoValue /\ error = ""
    /\ calls = [search |-> 0, initialize |-> 0, generate |-> 0, validate |-> 0]

\* MarkdownChunker(chunk_size, chunk_overlap): the arguments are chosen here,
\* the constructor body is MarkdownChunker_init.
InitChunker ==
    /\ cpc = "new"
    /\ chunk_size \in (-1)..MaxChunkSize
    /\ chunk_overlap \in (-1)..MaxChunkSize
    /\ markdown_content = <<>> /\ sections = <<>> /\ section_index = 0
    /\ start = 0 /\ loop_pass = 0 /\ chunks = <<>>
    /\ PipelineIdle /\ llm_manager = FALSE
    /\ loader = [model |-> FALSE, tokenizer |-> FALSE]
    /\ OthersIdle

\* __init__ without the check of lines 29-30 (chunk_overlap < 0)
MarkdownChunker_init_without_negative_check ==
    /\ cpc = "new"
    /\ cpc' = IF chunk_size <= 0 \/ chunk_overlap >= chunk_size
              THEN "ctor_error" ELSE "ready"
    /\ UNCHANGED <<chunk_size, chunk_overlap, markdown_content, sections,
                   section_index, start, loop_pass, chunks>>
    /\ UNCHANGED <<pipeline_vars, other_vars>>

\* __init__: the three checks raise ValueError
MarkdownChunker_init ==
    /\ cpc = "new"
    /\ cpc' = IF chunk_size <= 0 \/ chunk_overlap >= chunk_size \/ chunk_overlap < 0
              THEN "ctor_error" ELSE "ready"
    /\ UNCHANGED <<chunk_size, chunk_overlap, markdown_content, sections,
                   section_index, start, loop_pass, chunks>>
    /\ UNCHANGED <<pipeline_vars, other_vars>>

\* chunk_markdown without the test of lines 48-50
chunk_markdown_without_blank_check ==
    /\ cpc = "ready"
    /\ \E text \in ChunkerTexts :
        /\ markdown_content' = text
        /\ cpc' = "section"
        /\ sections' = _split_into_sections(text)
        /\ section_index' = 1
    /\ UNCHANGED <<chunk_size, chunk_overlap, start, loop_pass, chunks>>
    /\ UNCHANGED <<pipeline_vars, other_vars>>

\* chunk_markdown(markdown_content), up to the loop over the sections
chunk_markdown ==
    /\ cpc = "ready"
    /\ \E text \in ChunkerTexts :
        /\ markdown_content' = text
        /\ IF text = <<>> \/ strip(text) = <<>>
           THEN /\ cpc' = "done"
                /\ UNCHANGED <<sections, section_index>>
           ELSE /\ cpc' = "section"
                /\ sections' = _split_into_sections(text)
                /\ section_index' = 1
    /\ UNCHANGED <<chunk_size, chunk_overlap, start, loop_pass, chunks>>
    /\ UNCHANGED <<pipeline_vars, other_vars>>

\* chunks.append / chunks.extend.  A call that never returns appends for
\* ever; the model keeps the first Len(markdown_content) + 1 chunks, which
\* is every chunk of a call that returns (a returning call emits at most one
\* chunk per window start) and every distinct chunk of one that does not.
Emit(list, text) == IF Len(list) <= Len(markdown_content) THEN Append(list, text) ELSE list

\* the head of _chunk_section for the next section, or the return of
\* chunk_markdown when every section is done
chunk_section_enter ==
    /\ cpc = "section"
    /\ IF section_index > Len(sections)
       THEN /\ cpc' = "done"
            /\ UNCHANGED <<section_index, start, chunks>>
       ELSE IF Len(sections[section_index]) <= chunk_size
       THEN /\ chunks' = Emit(chunks, strip(sections[section_index]))
            /\ section_index' = section_index + 1
            /\ UNCHANGED <<cpc, start>>
       ELSE /\ start' = 0
            /\ cpc' = "loop"
            /\ UNCHANGED <<section_index, chunks>>
    /\ UNCHANGED <<chunk_size, chunk_overlap, markdown_content, sections, loop_pass>>
    /\ UNCHANGED <<pipeline_vars, other_vars>>

\* window_end with a window one character too long
window_end_overlong(section, s) ==
    LET end == s + chunk_size + 1
        last_period  == rfind(section, ".", s, end)
        last_newline == rfind(section, "\n", s, end)
        last_break   == IF last_period >= last_newline THEN last_period ELSE last_newline
    IN  IF end < Len(section) /\ last_break > s THEN last_break + 1 ELSE end

\* where the window starting at s ends: s + chunk_size, moved back to just
\* after the last "." or "\n" of the window when there is one past s
window_end(section, s) ==
    LET end == s + chunk_size
        last_period  == rfind(section, ".", s, end)
        last_newline == rfind(section, "\n", s, end)
        last_break   == IF last_period >= last_newline THEN last_period ELSE last_newline
    IN  IF end < Len(section) /\ last_break > s THEN last_break + 1 ELSE end

\* the next window start, one character past the end of the window
next_start_leaving_gap(end) == end + 1

\* the next window start
next_start(end) == IF end - chunk_overlap < 0 THEN end ELSE end - chunk_overlap

\* one pass of the while loop of _chunk_section; a pass that leaves start
\* and chunks as they were is still a step of the program
chunk_section_step ==
    /\ cpc = "loop"
    /\ LET section == sections[section_index]
           end == window_end(section, start)
           chunk_text == strip(slice(section, start, end))
       IN  /\ chunks' = IF chunk_text # <<>> THEN Emit(chunks, chunk_text) ELSE chunks
           /\ start' = next_start(end)
           /\ IF next_start(end) >= Len(section)
              THEN cpc' = "section" /\ section_index' = section_index + 1
                   /\ loop_pass' = 0
              ELSE /\ loop_pass' = 1 - loop_pass
                   /\ UNCHANGED <<cpc, section_index>>
    /\ UNCHANGED <<chunk_size, chunk_overlap, markdown_content, sections>>
    /\ UNCHANGED <<pipeline_vars, other_vars>>

NextChunker ==
    \/ MarkdownChunker_init
    \/ chunk_markdown
    \/ chunk_section_enter
    \/ chunk_section_step

SpecChunker == InitChunker /\ [][NextChunker]_vars

\* The loop of _chunk_section is sequential code: it takes its next step
\* whenever it has one.
FairSpecChunker == SpecChunker /\ WF_vars(NextChunker)

-----------------------------------------------------------------------------
(* Claims about MarkdownChunker                                            *)

\* C4: for every valid (chunk_size, chunk_overlap) and every text,
\* chunk_markdown terminates (the call reaches its return), and what it
\* returns is not empty when the text is not blank.
C4_ChunkingTerminates ==
    /\ <>(cpc \in {"ctor_error", "done"})
    /\ [](cpc = "done" /\ strip(markdown_content) # <<>> => chunks # <<>>)

\* C5: every chunk emitted by chunk_markdown is at most chunk_size long.
C5_ChunkBound == \A i \in DOMAIN chunks : Len(chunks[i]) <= chunk_size

\* a call that split a section longer than chunk_size into several windows,
\* one of them full
C5_Witness ==
    /\ cpc = "done"
    /\ \E k \in DOMAIN sections : Len(sections[k]) > chunk_size
    /\ Len(chunks) >= 2
    /\ \E i \in DOMAIN chunks : Len(chunks[i]) = chunk_size

-----------------------------------------------------------------------------
(* src/src/services/pipeline.py and src/src/managers/qwen.py               *)
(* The inputs of the pipeline: queries, search results, generator outputs. *)

\* 'Apple pie'
QUERY_APPLE ==
    <<"A", "p", "p", "l", "e", " ", "p", "i", "e">>

\* 'zebra'
QUERY_ZEBRA ==
    <<"z", "e", "b", "r", "a">>

\* 'apple pie is a sweet dish.'
CTX_APPLE ==
    <<"a", "p", "p", "l", "e", " ", "p", "i", "e", " ", "i", "s", " ", "a", " ", "s",
      "w", "e", "e", "t", " ", "d", "i", "s", "h", ".">>

\* ' the sky is blue.\n\n It is wide today. '
CTX_SKY ==
    <<" ", "t", "h", "e", " ", "s", "k", "y", " ", "i", "s", " ", "b", "l", "u", "e",
      ".", "\n", "\n", " ", "I", "t", " ", "i", "s", " ", "w", "i", "d", "e", " ", "t",
      "o", "d", "a", "y", ".", " ">>

\* 'apple pie'
CTX_SHORT ==
    <<"a", "p", "p", "l", "e", " ", "p", "i", "e">>

\* '. apple pie recipe card'
CTX_DOT ==
    <<".", " ", "a", "p", "p", "l", "e", " ", "p", "i", "e", " ", "r", "e", "c", "i",
      "p", "e", " ", "c", "a", "r", "d">>

\* '  '
CTX_BLANK ==
    <<" ", " ">>

\* 'apple pie is a sweet dish.'
OUT_GOOD ==
    <<"a", "p", "p", "l", "e", " ", "p", "i", "e", " ", "i", "s", " ", "a", " ", "s",
      "w", "e", "e", "t", " ", "d", "i", "s", "h", ".">>

\* '정보가 없습니다'
OUT_REFUSAL ==
    <<"K_jeo_ng", "K_bo", "K_ga", " ", "K_eo_bs", "K_seu_b", "K_ni", "K_da">>

\* 'apple pie 정보가 없습니다.'
OUT_REFUSAL_LONG ==
    <<"a", "p", "p", "l", "e", " ", "p", "i", "e", " ", "K_jeo_ng", "K_bo", "K_ga",
      " ", "K_eo_bs", "K_seu_b", "K_ni", "K_da", ".">>

\* 'bananas grow on tall trees'
OUT_LOW_OVERLAP ==
    <<"b", "a", "n", "a", "n", "a", "s", " ", "g", "r", "o", "w", " ", "o", "n", " ",
      "t", "a", "l", "l", " ", "t", "r", "e", "e", "s">>

\* 'hmm'
OUT_SHORT ==
    <<"h", "m", "m">>

\* 'stop stop stop stop stop stop stop stop stop stop stop stop '
OUT_WORDY ==
    <<"s", "t", "o", "p", " ", "s", "t", "o", "p", " ", "s", "t", "o", "p", " ", "s",
      "t", "o", "p", " ", "s", "t", "o", "p", " ", "s", "t", "o", "p", " ", "s", "t",
      "o", "p", " ", "s", "t", "o", "p", " ", "s", "t", "o", "p", " ", "s", "t", "o",
      "p", " ", "s", "t", "o", "p", " ", "s", "t", "o", "p", " ">>

\* 'apple pie is sweet'
SENTENCE_RELATED ==
    <<"a", "p", "p", "l", "e", " ", "p", "i", "e", " ", "i", "s", " ", "s", "w", "e",
      "e", "t">>

\* 'a sweet apple pie is a dish'
SENTENCE_RELATED_LONG ==
    <<"a", " ", "s", "w", "e", "e", "t", " ", "a", "p", "p", "l", "e", " ", "p", "i",
      "e", " ", "i", "s", " ", "a", " ", "d", "i", "s", "h">>

\* 'one two three four'
SENTENCE_UNRELATED ==
    <<"o", "n", "e", " ", "t", "w", "o", " ", "t", "h", "r", "e", "e", " ", "f", "o",
      "u", "r">>

\* 'bananas grow on tall green trees'
SENTENCE_UNRELATED_LONG ==
    <<"b", "a", "n", "a", "n", "a", "s", " ", "g", "r", "o", "w", " ", "o", "n", " ",
      "t", "a", "l", "l", " ", "g", "r", "e", "e", "n", " ", "t", "r", "e", "e", "s">>

\* '찾을 수 없습니다'
NOT_FOUND_WORDING ==
    <<"K_cha_j", "K_eu_l", " ", "K_su", " ", "K_eo_bs", "K_seu_b", "K_ni", "K_da">>

\* '관련된 문서를 찾을 수 없습니다.'
NO_DOCUMENTS_ANSWER ==
    <<"K_gwa_n", "K_ryeo_n", "K_doe_n", " ", "K_mu_n", "K_seo", "K_reu_l", " ",
      "K_cha_j", "K_eu_l", " ", "K_su", " ", "K_eo_bs", "K_seu_b", "K_ni", "K_da", ".">>

\* '제공된 문서에서 질문과 관련된 정보를 찾을 수 없습니다. 다른 질문을 시도해주세요.'
NOTHING_RELEVANT_ANSWER ==
    <<"K_je", "K_go_ng", "K_doe_n", " ", "K_mu_n", "K_seo", "K_e", "K_seo", " ",
      "K_ji_l", "K_mu_n", "K_gwa", " ", "K_gwa_n", "K_ryeo_n", "K_doe_n", " ",
      "K_jeo_ng", "K_bo", "K_reu_l", " ", "K_cha_j", "K_eu_l", " ", "K_su", " ",
      "K_eo_bs", "K_seu_b", "K_ni", "K_da", ".", " ", "K_da", "K_reu_n", " ", "K_ji_l",
      "K_mu_n", "K_eu_l", " ", "K_si", "K_do", "K_hae", "K_ju", "K_se", "K_yo", ".">>

\* '제공된 문서에서 질문과 관련된 유용한 정보를 찾을 수 없습니다.'
NOTHING_USEFUL_ANSWER ==
    <<"K_je", "K_go_ng", "K_doe_n", " ", "K_mu_n", "K_seo", "K_e", "K_seo", " ",
      "K_ji_l", "K_mu_n", "K_gwa", " ", "K_gwa_n", "K_ryeo_n", "K_doe_n", " ", "K_yu",
      "K_yo_ng", "K_ha_n", " ", "K_jeo_ng", "K_bo", "K_reu_l", " ", "K_cha_j",
      "K_eu_l", " ", "K_su", " ", "K_eo_bs", "K_seu_b", "K_ni", "K_da", ".">>

RECURSIVE Repeat(_, _)
Repeat(s, n) == IF n = 0 THEN <<>> ELSE s \o Repeat(s, n - 1)

\* the same sentence six times in a row, each ended by "." and separated by
\* a blank, with or without whitespace after the last one
SixTimes(sentence, tail) ==
    Repeat(sentence \o <<".", " ">>, 5) \o sentence \o <<".">> \o tail

SixTimesOutputs ==
    {SixTimes(sentence, tail) :
        sentence \in {SENTENCE_RELATED, SENTENCE_RELATED_LONG,
                      SENTENCE_UNRELATED, SENTENCE_UNRELATED_LONG},
        tail \in {<<>>, <<" ">>}}

\* what generate_with_context may return
GenOutputs ==
    {<<>>, OUT_GOOD, OUT_REFUSAL, OUT_REFUSAL_LONG, OUT_LOW_OVERLAP, OUT_SHORT, OUT_WORDY}
        \cup SixTimesOutputs

\* the arguments run may be called with
Queries == {<<>>, <<" ", " ">>, QUERY_APPLE, QUERY_ZEBRA}
MaxTopK == 2

\* SearchResult: text and score (in hundredths); the metadata plays no part
SearchResult(text, score) == [text |-> text, score |-> score]
ResultPool ==
    {SearchResult(CTX_APPLE, 90), SearchResult(CTX_SKY, 50), SearchResult(CTX_APPLE, 40),
     SearchResult(CTX_SHORT, 90), SearchResult(CTX_DOT, 90), SearchResult(CTX_BLANK, 90)}

\* what search_similar(query, top_k) may return: at most top_k results
ResultLists(k) == UNION {[1..n -> ResultPool] : n \in 0..k}

MIN_RELEVANCE_SCORE == 50
MIN_CONTEXT_LENGTH == 20
MIN_ANSWER_LENGTH == 10
MAX_ANSWER_LENGTH == 2000
POST_PROCESS_MAX_LENGTH == 1000

NoCalls == [search |-> 0, initialize |-> 0, generate |-> 0, validate |-> 0]

Called(what) == [calls EXCEPT ![what] = @ + 1]

\* ModelLoader.is_loaded
is_loaded == loader.model /\ loader.tokenizer

\* RunResult with "top_k": len(sources) in place of the argument
RunResult_counting_sources(a, contexts, sources) ==
    [query |-> query, answer |-> a, contexts |-> contexts, sources |-> sources,
     top_k |-> Len(sources)]

\* the dictionary run returns
RunResult(a, contexts, sources) ==
    [query |-> query, answer |-> a, contexts |-> contexts, sources |-> sources,
     top_k |-> top_k]

InitPipeline ==
    /\ PipelineIdle
    /\ llm_manager \in BOOLEAN
    /\ loader = [model |-> FALSE, tokenizer |-> FALSE]
    /\ cpc = "new" /\ chunk_size = 0 /\ chunk_overlap = 0
    /\ markdown_content = <<>> /\ sections = <<>> /\ section_index = 0
    /\ start = 0 /\ loop_pass = 0 /\ chunks = <<>>
    /\ OthersIdle

\* run without the argument checks of lines 231-235
run_unchecked ==
    /\ pc \in {"idle", "returned", "raised"}
    /\ \E q \in Queries, k \in 0..MaxTopK, u \in BOOLEAN :
        /\ query' = q /\ top_k' = k /\ use_llm' = u
        /\ pc' = "start" /\ error' = ""
    /\ search_results' = <<>> /\ filtered_results' = <<>> /\ valid_contexts' = <<>>
    /\ generated' = NoValue /\ answer' = NoValue /\ result' = NoValue
    /\ calls' = NoCalls
    /\ UNCHANGED <<llm_manager, loader>>
    /\ UNCHANGED <<chunker_vars, other_vars>>

\* run(query, top_k, use_llm), lines 231-237: the argument checks
run ==
    /\ pc \in {"idle", "returned", "raised"}
    /\ \E q \in Queries, k \in (-1)..MaxTopK, u \in BOOLEAN :
        /\ query' = q /\ top_k' = k /\ use_llm' = u
        /\ IF q = <<>> \/ strip(q) = <<>>
           THEN pc' = "raised" /\ error' = "ValueError: Query cannot be empty"
           ELSE IF k <= 0
           THEN pc' = "raised" /\ error' = "ValueError: top_k must be greater than 0"
           ELSE pc' = "start" /\ error' = ""
    /\ search_results' = <<>> /\ filtered_results' = <<>> /\ valid_contexts' = <<>>
    /\ generated' = NoValue /\ answer' = NoValue /\ result' = NoValue
    /\ calls' = NoCalls
    /\ UNCHANGED <<llm_manager, loader>>
    /\ UNCHANGED <<chunker_vars, other_vars>>

\* retrieve with a failure of the search caught and answered by an empty list
retrieve_absorbing ==
    /\ pc = "start"
    /\ IF query = <<>> \/ strip(query) = <<>>
       THEN /\ pc' = "raised" /\ error' = "ValueError: Query cannot be empty"
            /\ UNCHANGED <<search_results, calls>>
       ELSE IF top_k <= 0
       THEN /\ pc' = "raised" /\ error' = "ValueError: top_k must be greater than 0"
            /\ UNCHANGED <<search_results, calls>>
       ELSE /\ calls' = Called("search")
            /\ \/ \E found \in ResultLists(top_k) :
                    /\ search_results' = found
                    /\ pc' = "retrieved"
                    /\ UNCHANGED error
               \/ /\ pc' = "retrieved"
                  /\ error' = "search_similar raised"
                  /\ UNCHANGED search_results
    /\ UNCHANGED <<llm_manager, loader, query, top_k, use_llm, filtered_results,
                   valid_contexts, generated, answer, result>>
    /\ UNCHANGED <<chunker_vars, other_vars>>

\* retrieve(query, top_k): the same two checks, then the similarity search,
\* which returns a list or raises
retrieve ==
    /\ pc = "start"
    /\ IF query = <<>> \/ strip(query) = <<>>
       THEN /\ pc' = "raised" /\ error' = "ValueError: Query cannot be empty"
            /\ UNCHANGED <<search_results, calls>>
       ELSE IF top_k <= 0
       THEN /\ pc' = "raised" /\ error' = "ValueError: top_k must be greater than 0"
            /\ UNCHANGED <<search_results, calls>>
       ELSE /\ calls' = Called("search")
            /\ \/ \E found \in ResultLists(top_k) :
                    /\ search_results' = found
                    /\ pc' = "retrieved"
                    /\ UNCHANGED error
               \/ /\ pc' = "raised"
                  /\ error' = "search_similar raised"
                  /\ UNCHANGED search_results
    /\ UNCHANGED <<llm_manager, loader, query, top_k, use_llm, filtered_results,
                   valid_contexts, generated, answer, result>>
    /\ UNCHANGED <<chunker_vars, other_vars>>

\* score_filtered with "result.score > MIN_RELEVANCE_SCORE"
score_filtered_strict(found) ==
    LET Relevant(r) == r.text # <<>> /\ strip(r.text) # <<>>
                       /\ r.score > MIN_RELEVANCE_SCORE
    IN  SelectSeq(found, Relevant)

\* the score filter of run, lines 255-258
score_filtered(found) ==
    LET Relevant(r) == r.text # <<>> /\ strip(r.text) # <<>>
                       /\ r.score >= MIN_RELEVANCE_SCORE
    IN  SelectSeq(found, Relevant)

\* run, lines 242-268: no result, or none left by the score filter
score_filter ==
    /\ pc = "retrieved"
    /\ IF search_results = <<>>
       THEN /\ result' = RunResult(NO_DOCUMENTS_ANSWER, <<>>, <<>>)
            /\ pc' = "returned"
            /\ UNCHANGED filtered_results
       ELSE /\ filtered_results' = score_filtered(search_results)
            /\ IF score_filtered(search_results) = <<>>
               THEN /\ result' = RunResult(NOTHING_RELEVANT_ANSWER, <<>>, <<>>)
                    /\ pc' = "returned"
               ELSE /\ pc' = "score_filtered"
                    /\ UNCHANGED result
    /\ UNCHANGED <<llm_manager, loader, query, top_k, use_llm, search_results,
                   valid_contexts, generated, answer, error, calls>>
    /\ UNCHANGED <<chunker_vars, other_vars>>

\* the content filter of run, lines 270-277
content_filtered(results) ==
    LET contexts == [i \in 1..Len(results) |-> results[i].text]
        Useful(ctx) == Len(strip(ctx)) >= MIN_CONTEXT_LENGTH
                       /\ ~startswith(strip(ctx), <<".">>)
    IN  SelectSeq(contexts, Useful)

\* run, lines 270-287, returning "sources": [] with the canned answer
content_filter_dropping_sources ==
    /\ pc = "score_filtered"
    /\ valid_contexts' = content_filtered(filtered_results)
    /\ IF content_filtered(filtered_results) = <<>>
       THEN /\ result' = RunResult(NOTHING_USEFUL_ANSWER, <<>>, <<>>)
            /\ pc' = "returned"
       ELSE /\ pc' = "content_filtered"
            /\ UNCHANGED result
    /\ UNCHANGED <<llm_manager, loader, query, top_k, use_llm, search_results,
                   filtered_results, generated, answer, error, calls>>
    /\ UNCHANGED <<chunker_vars, other_vars>>

\* run, lines 270-287
content_filter ==
    /\ pc = "score_filtered"
    /\ valid_contexts' = content_filtered(filtered_results)
    /\ IF content_filtered(filtered_results) = <<>>
       THEN /\ result' = RunResult(NOTHING_USEFUL_ANSWER, <<>>, filtered_results)
            /\ pc' = "returned"
       ELSE /\ pc' = "content_filtered"
            /\ UNCHANGED result
    /\ UNCHANGED <<llm_manager, loader, query, top_k, use_llm, search_results,
                   filtered_results, generated, answer, error, calls>>
    /\ UNCHANGED <<chunker_vars, other_vars>>

\* generate's own filter of its contexts, lines 94-97
generate_contexts(contexts) ==
    LET Long(ctx) == ctx # <<>> /\ strip(ctx) # <<>>
                     /\ Len(strip(ctx)) >= MIN_CONTEXT_LENGTH
    IN  SelectSeq(contexts, Long)

simple_response(q, contexts) == build_simple_response(q, contexts, MAX_CONTEXT_LENGTH)

\* generate_enter with line 102 reading "if self.llm_manager": use_llm ignored
generate_enter_ignoring_use_llm ==
    /\ pc = "content_filtered"
    /\ IF valid_contexts = <<>>
       THEN answer' = NO_INFORMATION_ANSWER /\ pc' = "answered"
       ELSE IF generate_contexts(valid_contexts) = <<>>
       THEN answer' = NOTHING_USEFUL_ANSWER /\ pc' = "answered"
       ELSE IF llm_manager
       THEN /\ pc' = IF ~is_loaded THEN "initialize" ELSE "generating"
            /\ UNCHANGED answer
       ELSE /\ answer' = simple_response(query, generate_contexts(valid_contexts))
            /\ pc' = "answered"
    /\ UNCHANGED <<llm_manager, loader, query, top_k, use_llm, search_results,
                   filtered_results, valid_contexts, generated, result, error, calls>>
    /\ UNCHANGED <<chunker_vars, other_vars>>

\* generate, lines 90-106 and 193-196: the early returns, the choice between
\* the generator and the template, and the test for the lazy load
generate_enter ==
    /\ pc = "content_filtered"
    /\ IF valid_contexts = <<>>
       THEN answer' = NO_INFORMATION_ANSWER /\ pc' = "answered"
       ELSE IF generate_contexts(valid_contexts) = <<>>
       THEN answer' = NOTHING_USEFUL_ANSWER /\ pc' = "answered"
       ELSE IF use_llm /\ llm_manager
       THEN /\ pc' = IF ~is_loaded THEN "initialize" ELSE "generating"
            /\ UNCHANGED answer
       ELSE /\ answer' = simple_response(query, generate_contexts(valid_contexts))
            /\ pc' = "answered"
    /\ UNCHANGED <<llm_manager, loader, query, top_k, use_llm, search_results,
                   filtered_results, valid_contexts, generated, result, error, calls>>
    /\ UNCHANGED <<chunker_vars, other_vars>>

\* QwenManager.initialize -> ModelLoader.load_model, called at line 106
\* outside generate's try block: it sets the tokenizer, then the model, then
\* moves the model to the device, and re-raises whatever any of these raises
initialize ==
    /\ pc = "initialize"
    /\ calls' = Called("initialize")
    /\ IF is_loaded
       THEN pc' = "generating" /\ UNCHANGED <<loader, error>>
       ELSE \/ /\ loader' = [model |-> TRUE, tokenizer |-> TRUE]
               /\ pc' = "generating"
               /\ UNCHANGED error
            \/ /\ loader' = [loader EXCEPT !.tokenizer = TRUE]
               /\ pc' = "raised"
               /\ error' = "load_model raised (model)"
            \/ /\ pc' = "raised"
               /\ error' = "load_model raised (tokenizer)"
               /\ UNCHANGED loader
            \/ /\ loader' = [model |-> TRUE, tokenizer |-> TRUE]
               /\ pc' = "raised"
               /\ error' = "load_model raised (device)"
    /\ UNCHANGED <<llm_manager, query, top_k, use_llm, search_results,
                   filtered_results, valid_contexts, generated, answer, result>>
    /\ UNCHANGED <<chunker_vars, other_vars>>

\* line 133
has_negative_phrase(text) == \E phrase \in PIPELINE_NEGATIVE_PHRASES : contains(text, phrase)

\* lines 137-139
context_has_keywords(q, contexts) ==
    LET query_keywords == ToSet(findall_words(lower(q)))
        context_text_lower == lower(join(<<" ">>, contexts))
    IN  \E keyword \in query_keywords :
            Len(keyword) > 1 /\ contains(context_text_lower, keyword)

\* raw_acceptable without lines 171-175: the raw output is never used
raw_never_acceptable(raw) == FALSE

\* lines 171-173: the raw output is long enough and not repetitive
raw_acceptable(raw) ==
    /\ raw # <<>>
    /\ Len(strip(raw)) >= MIN_ANSWER_LENGTH
    /\ ~detect_repetition(raw, MIN_REPEAT_LENGTH)

\* judge_processed without the keyword test of lines 135-146: a refusal is
\* validated like any other answer
judge_processed_validating(q, raw, processed, contexts) ==
    IF validate_answer_quality(processed, MIN_ANSWER_LENGTH,
                               MAX_ANSWER_LENGTH, contexts).is_valid
    THEN [answer |-> processed, validated |-> TRUE]
    ELSE IF ~has_negative_phrase(processed) /\ raw_acceptable(raw)
    THEN [answer |-> raw, validated |-> TRUE]
    ELSE [answer |-> simple_response(q, contexts), validated |-> TRUE]

\* judge_processed without lines 171-173: the raw output replaces any
\* rejected answer that is not a refusal
judge_processed_trusting_raw(q, raw, processed, contexts) ==
    IF has_negative_phrase(processed) /\ context_has_keywords(q, contexts)
    THEN [answer |-> simple_response(q, contexts), validated |-> FALSE]
    ELSE IF validate_answer_quality(processed, MIN_ANSWER_LENGTH,
                                    MAX_ANSWER_LENGTH, contexts).is_valid
    THEN [answer |-> processed, validated |-> TRUE]
    ELSE IF ~has_negative_phrase(processed)
    THEN [answer |-> raw, validated |-> TRUE]
    ELSE [answer |-> simple_response(q, contexts), validated |-> TRUE]

\* generate, lines 130-186: what becomes of the post-processed output;
\* validated tells whether validate_answer_quality was called
judge_processed(q, raw, processed, contexts) ==
    IF has_negative_phrase(processed) /\ context_has_keywords(q, contexts)
    THEN [answer |-> simple_response(q, contexts), validated |-> FALSE]
    ELSE IF validate_answer_quality(processed, MIN_ANSWER_LENGTH,
                                    MAX_ANSWER_LENGTH, contexts).is_valid
    THEN [answer |-> processed, validated |-> TRUE]
    ELSE IF ~has_negative_phrase(processed) /\ raw_acceptable(raw)
    THEN [answer |-> raw, validated |-> TRUE]
    ELSE [answer |-> simple_response(q, contexts), validated |-> TRUE]

\* generate, lines 124-186: what becomes of the generator's output raw
judge(q, raw, contexts) ==
    judge_processed(q, raw, post_process_answer(raw, POST_PROCESS_MAX_LENGTH), contexts)

\* generate_with_context calling the generator again when the call raised
generate_with_context_retrying ==
    /\ pc = "generating"
    /\ \/ \E raw \in GenOutputs :
            \E judged \in {judge(query, raw, generate_contexts(valid_contexts))} :
                /\ generated' = raw
                /\ answer' = judged.answer
                /\ calls' = [calls EXCEPT !.generate = @ + 1,
                                          !.validate = @ + (IF judged.validated THEN 1 ELSE 0)]
                /\ pc' = "answered"
                /\ UNCHANGED error
       \/ /\ calls.generate = 0
          /\ calls' = Called("generate")
          /\ error' = "generate_with_context raised (retried)"
          /\ UNCHANGED <<pc, generated, answer>>
    /\ UNCHANGED <<llm_manager, loader, query, top_k, use_llm, search_results,
                   filtered_results, valid_contexts, result>>
    /\ UNCHANGED <<chunker_vars, other_vars>>

\* generate, lines 110-192: the generator call inside the try block; an
\* exception of the call is answered with the template
generate_with_context ==
    /\ pc = "generating"
    /\ \/ \E raw \in GenOutputs :
            \E judged \in {judge(query, raw, generate_contexts(valid_contexts))} :
                /\ generated' = raw
                /\ answer' = judged.answer
                /\ calls' = [calls EXCEPT !.generate = @ + 1,
                                          !.validate = @ + (IF judged.validated THEN 1 ELSE 0)]
                /\ UNCHANGED error
       \/ /\ answer' = simple_response(query, generate_contexts(valid_contexts))
          /\ calls' = Called("generate")
          /\ error' = "generate_with_context raised (caught)"
          /\ UNCHANGED generated
    /\ pc' = "answered"
    /\ UNCHANGED <<llm_manager, loader, query, top_k, use_llm, search_results,
                   filtered_results, valid_contexts, result>>
    /\ UNCHANGED <<chunker_vars, other_vars>>

\* run, lines 297-306
assemble ==
    /\ pc = "answered"
    /\ result' = RunResult(answer, valid_contexts, filtered_results)
    /\ pc' = "returned"
    /\ UNCHANGED <<llm_manager, loader, query, top_k, use_llm, search_results,
                   filtered_results, valid_contexts, generated, answer, error, calls>>
    /\ UNCHANGED <<chunker_vars, other_vars>>

Init == InitPipeline

Next ==
    \/ run
    \/ retrieve
    \/ score_filter
    \/ content_filter
    \/ generate_enter
    \/ initialize
    \/ generate_with_context
    \/ assemble

Spec == Init /\ [][Next]_vars

-----------------------------------------------------------------------------
(* Properties of RAGPipeline.run and RAGPipeline.generate                  *)

\* the arguments of the current call pass the checks of lines 231-235
ValidCall == strip(query) # <<>> /\ top_k >= 1

\* the similarity search itself failed
RetrievalFailed == error = "search_similar raised"

\* the model could not be loaded, or generate_with_context raised
LoadFailed ==
    error \in {"load_model raised (tokenizer)", "load_model raised (model)",
               "load_model raised (device)"}
GenerationFailed == LoadFailed \/ error = "generate_with_context raised (caught)"

\* generate has produced the answer of the current call
Answered == pc \in {"answered", "returned"} /\ answer # NoValue

\* the generator returned an output in the current call
Generated == Answered /\ generated # NoValue

\* the deterministic template answer over the surviving contexts
TemplateAnswer == build_simple_response(query, valid_contexts, MAX_CONTEXT_LENGTH)

\* C1: a call of run with a non-blank query and top_k >= 1 whose retrieval
\* does not fail never raises, and the result it returns has a non-empty
\* answer.
C1_AlwaysAnswers ==
    ValidCall /\ ~RetrievalFailed =>
        /\ pc # "raised"
        /\ pc = "returned" => result.answer # <<>>

\* C2: in every result run returns, contexts and sources have the same length
\* and contexts[i] is the text of sources[i].
C2_ContextsAlignSources ==
    pc = "returned" =>
        /\ Len(result.contexts) = Len(result.sources)
        /\ \A i \in DOMAIN result.contexts :
               i \in DOMAIN result.sources
               /\ result.contexts[i] = result.sources[i].text

\* C3: with generation enabled and a generator configured, a failure of the
\* lazy model load or of generate_with_context never reaches the caller: run
\* goes on to return the template answer over the surviving contexts.
C3_GenerationFailuresAbsorbed ==
    use_llm /\ llm_manager /\ GenerationFailed =>
        /\ pc # "raised"
        /\ Answered => answer = TemplateAnswer
        /\ pc = "returned" => result.answer = TemplateAnswer

\* C6: when the generator returns the same sentence six times in a row, the
\* final answer is the template answer over the surviving contexts, neither the
\* raw output nor a cleaned version of it.
C6_SixRepeatsRejected ==
    Generated /\ generated \in SixTimesOutputs =>
        /\ answer = TemplateAnswer
        /\ pc = "returned" => result.answer = TemplateAnswer

\* C7: when the post-processed output contains a refusal phrase and the
\* surviving contexts contain a keyword of the query, the answer is the
\* template answer and validate_answer_quality is not called.
C7_RefusalWithKeywordDiscarded ==
    /\ Generated
    /\ has_negative_phrase(post_process_answer(generated, POST_PROCESS_MAX_LENGTH))
    /\ context_has_keywords(query, valid_contexts)
    => /\ answer = TemplateAnswer
       /\ calls.validate = 0
       /\ pc = "returned" => result.answer = TemplateAnswer

C7_Witness ==
    /\ pc = "returned"
    /\ calls.generate = 1
    /\ generated = OUT_REFUSAL
    /\ query = QUERY_APPLE
    /\ context_has_keywords(query, valid_contexts)
    /\ calls.validate = 0
    /\ result.answer = TemplateAnswer

\* C8: when use_llm is false or no generator is configured and a context
\* survives both filters, the answer of run is the template answer and
\* neither initialize nor generate_with_context is called.
C8_TemplateWithoutGenerator ==
    /\ ~(use_llm /\ llm_manager)
    /\ valid_contexts # <<>>
    => /\ calls.initialize = 0
       /\ calls.generate = 0
       /\ pc # "initialize" /\ pc # "generating"
       /\ Answered => answer = TemplateAnswer
       /\ pc = "returned" => result.answer = TemplateAnswer

C8_Witness ==
    /\ pc = "returned"
    /\ ~use_llm
    /\ llm_manager
    /\ Len(valid_contexts) = 2
    /\ result.contexts = valid_contexts
    /\ result.answer = TemplateAnswer
    /\ calls.generate = 0

\* validate_answer_quality rejects the post-processed answer, which is not a
\* refusal
Rejected(processed, contexts) ==
    /\ ~has_negative_phrase(processed)
    /\ ~validate_answer_quality(processed, MIN_ANSWER_LENGTH, MAX_ANSWER_LENGTH,
                                contexts).is_valid

\* the generated answer of the current call is not a refusal and
\* validate_answer_quality rejects its post-processed form
RejectedNonRefusal ==
    /\ Generated
    /\ Rejected(post_process_answer(generated, POST_PROCESS_MAX_LENGTH), valid_contexts)

\* C9 as stated: a non-refusal answer that validate_answer_quality rejects is
\* always replaced by the template answer, never the generator's text.
C9_RejectedAnswerReplaced ==
    RejectedNonRefusal =>
        /\ answer = TemplateAnswer
        /\ pc = "returned" => result.answer = TemplateAnswer

\* C9 amended: a non-refusal answer that validate_answer_quality rejects is
\* replaced by the template answer unless the raw output has at least 10
\* characters after trimming and detect_repetition does not flag it; then the
\* answer is the raw output. No error is raised either way.
C9_RejectedAnswerReplacedUnlessRawPasses ==
    RejectedNonRefusal =>
        /\ answer = IF Len(strip(generated)) >= MIN_ANSWER_LENGTH
                       /\ ~detect_repetition(generated, MIN_REPEAT_LENGTH)
                    THEN generated
                    ELSE TemplateAnswer
        /\ pc = "returned" => result.answer = answer
        /\ pc # "raised"

C9_Witness ==
    /\ pc = "returned"
    /\ RejectedNonRefusal
    /\ generated = OUT_LOW_OVERLAP
    /\ result.answer = generated
    /\ result.answer # TemplateAnswer

\* C10: when the similarity search returns no result for a valid query, run
\* returns no contexts, no sources, the query and top_k it was given, and an
\* answer containing "찾을 수 없습니다".
C10_EmptySearchResult ==
    pc = "returned" /\ search_results = <<>> =>
        /\ ValidCall
        /\ result.contexts = <<>>
        /\ result.sources = <<>>
        /\ result.query = query
        /\ result.top_k = top_k
        /\ contains(result.answer, NOT_FOUND_WORDING)

C10_Witness ==
    /\ pc = "returned"
    /\ calls.search = 1
    /\ search_results = <<>>
    /\ query = QUERY_ZEBRA
    /\ top_k = MaxTopK
    /\ result.answer = NO_DOCUMENTS_ANSWER

-----------------------------------------------------------------------------
(* The two filters of RAGPipeline.run over longer result lists: a pipeline *)
(* without a generator, at the return of retrieve in                       *)
(* run("Apple pie", top_k = MaxResults, use_llm = False).                  *)

MaxResults == 3

FilterScores == {90, 50, 40, 20}

\* results with texts that pass the content filter, a whitespace-only text and
\* an empty text
FilterPool ==
    {SearchResult(text, score) : text \in {CTX_APPLE, CTX_SKY}, score \in FilterScores}
        \cup {SearchResult(CTX_BLANK, 90), SearchResult(<<>>, 90)}

FilterLists == UNION {[1..n -> FilterPool] : n \in 0..MaxResults}

InitRetrieved ==
    /\ pc = "retrieved"
    /\ query = QUERY_APPLE /\ top_k = MaxResults /\ use_llm = FALSE
    /\ llm_manager = FALSE
    /\ loader = [model |-> FALSE, tokenizer |-> FALSE]
    /\ search_results \in FilterLists
    /\ filtered_results = <<>> /\ valid_contexts = <<>>
    /\ generated = NoValue /\ answer = NoValue /\ result = NoValue /\ error = ""
    /\ calls = [NoCalls EXCEPT !.search = 1]
    /\ cpc = "new" /\ chunk_size = 0 /\ chunk_overlap = 0
    /\ markdown_content = <<>> /\ sections = <<>> /\ section_index = 0
    /\ start = 0 /\ loop_pass = 0 /\ chunks = <<>>
    /\ OthersIdle

NextFilter ==
    \/ score_filter
    \/ content_filter
    \/ generate_enter
    \/ assemble

SpecFilter == InitRetrieved /\ [][NextFilter]_vars

\* the score filter of the current call has acted
ScoreFilterDone == pc \notin {"idle", "start", "retrieved", "raised"} /\ search_results # <<>>

\* the indices of the retrieved results with a non-blank text and a score of
\* at least 0.5
KeptIndices ==
    {i \in DOMAIN search_results :
        /\ \E j \in DOMAIN search_results[i].text : search_results[i].text[j] \notin WhiteSpace
        /\ search_results[i].score >= 50}

\* C11: the score filter keeps exactly the retrieved results whose text is
\* not blank and whose score is at least 0.5, in their order; of three results
\* with valid texts scored 0.9, 0.4 and 0.2 only the first survives and the
\* returned contexts have length 1.
C11_ScoreFilterKeeps ==
    ScoreFilterDone =>
        /\ Len(filtered_results) = Cardinality(KeptIndices)
        /\ \A k \in DOMAIN filtered_results :
               filtered_results[k] = search_results[SortedSeq(KeptIndices)[k]]
        /\ ( /\ Len(search_results) = 3
             /\ [i \in 1..3 |-> search_results[i].score] = <<90, 40, 20>>
             /\ \A i \in 1..3 : search_results[i].text \in {CTX_APPLE, CTX_SKY}
             => /\ filtered_results = <<search_results[1]>>
                /\ pc = "returned" => Len(result.contexts) = 1 )

C11_Witness ==
    /\ pc = "returned"
    /\ Len(search_results) = 3
    /\ [i \in 1..3 |-> search_results[i].score] = <<90, 40, 20>>
    /\ \A i \in 1..3 : search_results[i].text \in {CTX_APPLE, CTX_SKY}
    /\ result.contexts = <<search_results[1].text>>
    /\ result.sources = <<search_results[1]>>

-----------------------------------------------------------------------------
(* Argument and retrieval errors of RAGPipeline.run                        *)

\* the query of the current call is empty or whitespace-only
BlankQuery == \A j \in DOMAIN query : query[j] \in WhiteSpace

\* C12: a call of run with an empty or whitespace-only query, or with
\* top_k <= 0, ends in a ValueError; neither the similarity search nor the
\* generator has been called and there is no result.
C12_InvalidArgumentsRejected ==
    pc # "idle" /\ (BlankQuery \/ top_k <= 0) =>
        /\ pc = "raised"
        /\ error = IF BlankQuery THEN "ValueError: Query cannot be empty"
                   ELSE "ValueError: top_k must be greater than 0"
        /\ calls = NoCalls
        /\ search_results = <<>>
        /\ result = NoValue

C12_Witness ==
    /\ pc = "raised"
    /\ query = <<" ", " ">>
    /\ top_k = MaxTopK
    /\ use_llm
    /\ llm_manager
    /\ error = "ValueError: Query cannot be empty"
    /\ calls = NoCalls
    /\ result = NoValue

\* C13: when the similarity search raises, run raises: there is no result and
\* no answer, and the generator is not called.
C13_RetrievalFailurePropagates ==
    RetrievalFailed =>
        /\ pc = "raised"
        /\ calls.search = 1
        /\ result = NoValue
        /\ answer = NoValue
        /\ calls.initialize = 0
        /\ calls.generate = 0

C13_Witness ==
    /\ pc = "raised"
    /\ RetrievalFailed
    /\ ValidCall
    /\ use_llm
    /\ llm_manager
    /\ is_loaded
    /\ result = NoValue

-----------------------------------------------------------------------------
(* Construction and edge cases of MarkdownChunker                          *)

\* the constructor has returned a chunker
Constructed == cpc \in {"ready", "section", "loop", "done"}

\* C14: the constructor raises whenever chunk_size <= 0, chunk_overlap < 0 or
\* chunk_overlap >= chunk_size and returns a chunker otherwise, so every
\* chunker satisfies 0 <= chunk_overlap < chunk_size.
C14_ConstructorEnforcesSizes ==
    /\ cpc = "ctor_error" =>
           chunk_size <= 0 \/ chunk_overlap < 0 \/ chunk_overlap >= chunk_size
    /\ Constructed => chunk_size > 0 /\ 0 <= chunk_overlap /\ chunk_overlap < chunk_size

C14_Witness ==
    /\ cpc = "ctor_error"
    /\ chunk_size > 0
    /\ chunk_overlap = chunk_size

\* chunk_markdown has been called
ChunkingCalled == cpc \in {"section", "loop", "done"}

\* C15: chunk_markdown of an empty or whitespace-only text returns at once
\* with no chunk (and no error).
C15_BlankInputGivesNoChunks ==
    ChunkingCalled /\ (\A j \in DOMAIN markdown_content : markdown_content[j] \in WhiteSpace) =>
        /\ cpc = "done"
        /\ chunks = <<>>
        /\ sections = <<>>

C15_Witness ==
    /\ cpc = "done"
    /\ Len(markdown_content) >= 2
    /\ \A j \in DOMAIN markdown_content : markdown_content[j] \in WhiteSpace
    /\ \E j \in DOMAIN markdown_content : markdown_content[j] = "\n"
    /\ chunks = <<>>

-----------------------------------------------------------------------------
(* The process-wide resources: dependencies.py (get_embedding_generator,   *)
(* get_vector_repository) and qwen.py (ModelLoader, QwenManager.initialize)*)
(* run by several threads, each making a first request.  One action is one *)
(* step between two points where another thread can run.                   *)

ChunkerIdle ==
    /\ cpc = "new" /\ chunk_size = 0 /\ chunk_overlap = 0
    /\ markdown_content = <<>> /\ sections = <<>> /\ section_index = 0
    /\ start = 0 /\ loop_pass = 0 /\ chunks = <<>>

InitThreads ==
    /\ UploadIdle
    /\ SingletonsIdle
    /\ QualityIdle
    /\ ChunkerIdle
    /\ PipelineIdle /\ llm_manager = TRUE
    /\ loader = [model |-> FALSE, tokenizer |-> FALSE]

goto(t, position) == tpc' = [tpc EXCEPT ![t] = position]

\* a thread begins as lifespan does (get_embedding_generator(), then
\* get_vector_repository()) or as get_rag_service does (get_vector_repository())
thread_start(t) ==
    /\ tpc[t] = "start"
    /\ \/ goto(t, "eg_check") /\ ret' = [ret EXCEPT ![t] = "vr_check"]
       \/ goto(t, "vr_check") /\ UNCHANGED ret
    /\ UNCHANGED <<obtained, embedding_generator, vector_repository, model_loader>>
    /\ UNCHANGED <<chunker_vars, pipeline_vars, quality_vars, upload_vars>>

\* get_embedding_generator, line 25: the test outside the lock (and line 31)
get_embedding_generator_check(t) ==
    /\ tpc[t] = "eg_check"
    /\ IF embedding_generator.instance # 0
       THEN /\ obtained' = [obtained EXCEPT ![t].eg = embedding_generator.instance]
            /\ goto(t, ret[t])
       ELSE /\ goto(t, "eg_acquire")
            /\ UNCHANGED obtained
    /\ UNCHANGED <<ret, embedding_generator, vector_repository, model_loader>>
    /\ UNCHANGED <<chunker_vars, pipeline_vars, quality_vars, upload_vars>>

\* line 26: with _embedding_generator_lock
get_embedding_generator_acquire(t) ==
    /\ tpc[t] = "eg_acquire"
    /\ embedding_generator.lock = 0
    /\ embedding_generator' = [embedding_generator EXCEPT !.lock = t]
    /\ goto(t, "eg_locked")
    /\ UNCHANGED <<ret, obtained, vector_repository, model_loader>>
    /\ UNCHANGED <<chunker_vars, pipeline_vars, quality_vars, upload_vars>>

\* lines 27-31: the test inside the lock, construction and initialize(), the
\* assignment of _instance, the release of the lock and the return
get_embedding_generator_locked(t) ==
    /\ tpc[t] = "eg_locked"
    /\ IF embedding_generator.instance # 0
       THEN embedding_generator' = [embedding_generator EXCEPT !.lock = 0]
       ELSE embedding_generator' =
                [instance |-> embedding_generator.built + 1, lock |-> 0,
                 built |-> embedding_generator.built + 1]
    /\ obtained' = [obtained EXCEPT ![t].eg = embedding_generator'.instance]
    /\ goto(t, ret[t])
    /\ UNCHANGED <<ret, vector_repository, model_loader>>
    /\ UNCHANGED <<chunker_vars, pipeline_vars, quality_vars, upload_vars>>

\* get_vector_repository, line 36: the test outside the lock (and line 47)
get_vector_repository_check(t) ==
    /\ tpc[t] = "vr_check"
    /\ IF vector_repository.instance # 0
       THEN /\ obtained' = [obtained EXCEPT ![t].vr = vector_repository.instance]
            /\ goto(t, "ml_new")
       ELSE /\ goto(t, "vr_acquire")
            /\ UNCHANGED obtained
    /\ UNCHANGED <<ret, embedding_generator, vector_repository, model_loader>>
    /\ UNCHANGED <<chunker_vars, pipeline_vars, quality_vars, upload_vars>>

\* line 37: with _vector_repository_lock
get_vector_repository_acquire(t) ==
    /\ tpc[t] = "vr_acquire"
    /\ vector_repository.lock = 0
    /\ vector_repository' = [vector_repository EXCEPT !.lock = t]
    /\ goto(t, "vr_locked")
    /\ UNCHANGED <<ret, obtained, embedding_generator, model_loader>>
    /\ UNCHANGED <<chunker_vars, pipeline_vars, quality_vars, upload_vars>>

\* lines 38-39: the test inside the lock; the call of get_embedding_generator()
get_vector_repository_locked(t) ==
    /\ tpc[t] = "vr_locked"
    /\ IF vector_repository.instance # 0
       THEN /\ vector_repository' = [vector_repository EXCEPT !.lock = 0]
            /\ obtained' = [obtained EXCEPT ![t].vr = vector_repository.instance]
            /\ goto(t, "ml_new")
            /\ UNCHANGED ret
       ELSE /\ goto(t, "eg_check")
            /\ ret' = [ret EXCEPT ![t] = "vr_build"]
            /\ UNCHANGED <<vector_repository, obtained>>
    /\ UNCHANGED <<embedding_generator, model_loader>>
    /\ UNCHANGED <<chunker_vars, pipeline_vars, quality_vars, upload_vars>>

\* lines 40-47: construction and initialize(), the assignment of _instance,
\* the release of the lock and the return
get_vector_repository_build(t) ==
    /\ tpc[t] = "vr_build"
    /\ vector_repository' =
           [instance |-> vector_repository.built + 1, lock |-> 0,
            built |-> vector_repository.built + 1]
    /\ obtained' = [obtained EXCEPT ![t].vr = vector_repository'.instance]
    /\ goto(t, "ml_new")
    /\ UNCHANGED <<ret, embedding_generator, model_loader>>
    /\ UNCHANGED <<chunker_vars, pipeline_vars, quality_vars, upload_vars>>

\* QwenManager() of get_rag_service: ModelLoader.__new__, line 29
ModelLoader_new_check(t) ==
    /\ tpc[t] = "ml_new"
    /\ IF model_loader.instance # 0
       THEN /\ obtained' = [obtained EXCEPT ![t].ml = model_loader.instance]
            /\ goto(t, "ml_init")
       ELSE /\ goto(t, "ml_acquire")
            /\ UNCHANGED obtained
    /\ UNCHANGED <<ret, embedding_generator, vector_repository, model_loader>>
    /\ UNCHANGED <<chunker_vars, pipeline_vars, quality_vars, upload_vars>>

\* line 30: with cls._lock
ModelLoader_new_acquire(t) ==
    /\ tpc[t] = "ml_acquire"
    /\ model_loader.lock = 0
    /\ model_loader' = [model_loader EXCEPT !.lock = t]
    /\ goto(t, "ml_locked")
    /\ UNCHANGED <<ret, obtained, embedding_generator, vector_repository>>
    /\ UNCHANGED <<chunker_vars, pipeline_vars, quality_vars, upload_vars>>

\* lines 31-34: the test inside the lock, the new instance with
\* _initialized = False, the release of the lock and the return
ModelLoader_new_locked(t) ==
    /\ tpc[t] = "ml_locked"
    /\ IF model_loader.instance # 0
       THEN model_loader' = [model_loader EXCEPT !.lock = 0]
       ELSE model_loader' = [model_loader EXCEPT !.lock = 0,
                                                 !.instance = model_loader.created + 1,
                                                 !.created = model_loader.created + 1,
                                                 !.initialized = FALSE]
    /\ obtained' = [obtained EXCEPT ![t].ml = model_loader'.instance]
    /\ goto(t, "ml_init")
    /\ UNCHANGED <<ret, embedding_generator, vector_repository>>
    /\ UNCHANGED <<chunker_vars, pipeline_vars, quality_vars, upload_vars>>

\* ModelLoader.__init__, lines 38-39: if self._initialized: return
ModelLoader_init_check(t) ==
    /\ tpc[t] = "ml_init"
    /\ IF model_loader.initialized
       THEN goto(t, "generate")
       ELSE goto(t, "ml_init_body")
    /\ UNCHANGED <<ret, obtained, embedding_generator, vector_repository, model_loader>>
    /\ UNCHANGED <<chunker_vars, pipeline_vars, quality_vars, upload_vars>>

\* lines 41-44: self.model = None, self.tokenizer = None
ModelLoader_init_body(t) ==
    /\ tpc[t] = "ml_init_body"
    /\ model_loader' = [model_loader EXCEPT !.model = FALSE, !.tokenizer = FALSE]
    /\ goto(t, "ml_init_flag")
    /\ UNCHANGED <<ret, obtained, embedding_generator, vector_repository>>
    /\ UNCHANGED <<chunker_vars, pipeline_vars, quality_vars, upload_vars>>

\* line 45: self._initialized = True
ModelLoader_init_flag(t) ==
    /\ tpc[t] = "ml_init_flag"
    /\ model_loader' = [model_loader EXCEPT !.initialized = TRUE]
    /\ goto(t, "generate")
    /\ UNCHANGED <<ret, obtained, embedding_generator, vector_repository>>
    /\ UNCHANGED <<chunker_vars, pipeline_vars, quality_vars, upload_vars>>

\* RAGPipeline.generate, pipeline.py line 104: if not model_loader.is_loaded()
generate_is_loaded_check(t) ==
    /\ tpc[t] = "generate"
    /\ IF model_loader.model /\ model_loader.tokenizer
       THEN goto(t, "done")
       ELSE goto(t, "initialize")
    /\ UNCHANGED <<ret, obtained, embedding_generator, vector_repository, model_loader>>
    /\ UNCHANGED <<chunker_vars, pipeline_vars, quality_vars, upload_vars>>

\* QwenManager.initialize, line 232: if not self.model_loader.is_loaded()
QwenManager_initialize_check(t) ==
    /\ tpc[t] = "initialize"
    /\ IF model_loader.model /\ model_loader.tokenizer
       THEN goto(t, "done")
       ELSE goto(t, "load_model")
    /\ UNCHANGED <<ret, obtained, embedding_generator, vector_repository, model_loader>>
    /\ UNCHANGED <<chunker_vars, pipeline_vars, quality_vars, upload_vars>>

\* load_model, lines 66-68: the model is there already (one model name is used)
load_model_check(t) ==
    /\ tpc[t] = "load_model"
    /\ IF model_loader.model
       THEN goto(t, "done")
       ELSE goto(t, "load_tokenizer")
    /\ UNCHANGED <<ret, obtained, embedding_generator, vector_repository, model_loader>>
    /\ UNCHANGED <<chunker_vars, pipeline_vars, quality_vars, upload_vars>>

\* lines 89-93: self.tokenizer = AutoTokenizer.from_pretrained(...)
load_model_tokenizer(t) ==
    /\ tpc[t] = "load_tokenizer"
    /\ model_loader' = [model_loader EXCEPT !.tokenizer = TRUE]
    /\ goto(t, "load_weights")
    /\ UNCHANGED <<ret, obtained, embedding_generator, vector_repository>>
    /\ UNCHANGED <<chunker_vars, pipeline_vars, quality_vars, upload_vars>>

\* lines 118-147: self.model = AutoModelForCausalLM.from_pretrained(...), one
\* more load of the weights
load_model_weights(t) ==
    /\ tpc[t] = "load_weights"
    /\ model_loader' = [model_loader EXCEPT !.model = TRUE,
                                              !.loads = model_loader.loads + 1]
    /\ goto(t, "done")
    /\ UNCHANGED <<ret, obtained, embedding_generator, vector_repository>>
    /\ UNCHANGED <<chunker_vars, pipeline_vars, quality_vars, upload_vars>>

NextThreads ==
    \E t \in Threads :
        \/ thread_start(t)
        \/ get_embedding_generator_check(t)
        \/ get_embedding_generator_acquire(t)
        \/ get_embedding_generator_locked(t)
        \/ get_vector_repository_check(t)
        \/ get_vector_repository_acquire(t)
        \/ get_vector_repository_locked(t)
        \/ get_vector_repository_build(t)
        \/ ModelLoader_new_check(t)
        \/ ModelLoader_new_acquire(t)
        \/ ModelLoader_new_locked(t)
        \/ ModelLoader_init_check(t)
        \/ ModelLoader_init_body(t)
        \/ ModelLoader_init_flag(t)
        \/ generate_is_loaded_check(t)
        \/ QwenManager_initialize_check(t)
        \/ load_model_check(t)
        \/ load_model_tokenizer(t)
        \/ load_model_weights(t)

SpecThreads == InitThreads /\ [][NextThreads]_vars

\* the embedding generator and the vector repository are built at most once
DependenciesBuiltOnce ==
    /\ embedding_generator.built <= 1
    /\ vector_repository.built <= 1

\* one ModelLoader object exists at most
ModelLoaderCreatedOnce == model_loader.created <= 1

\* the weights of the generation model are loaded at most once
ModelLoadedOnce == model_loader.loads <= 1

\* every thread that was handed a resource was handed the same one
SameInstances ==
    \A t \in Threads, u \in Threads :
        /\ obtained[t].eg # 0 /\ obtained[u].eg # 0 => obtained[t].eg = obtained[u].eg
        /\ obtained[t].vr # 0 /\ obtained[u].vr # 0 => obtained[t].vr = obtained[u].vr
        /\ obtained[t].ml # 0 /\ obtained[u].ml # 0 => obtained[t].ml = obtained[u].ml

\* C16: with several threads making the first use concurrently, each
\* process-wide resource is constructed and initialized (the model loaded)
\* at most once and every caller is handed the same instance.
C16_ResourcesBuiltOnce ==
    /\ DependenciesBuiltOnce
    /\ ModelLoaderCreatedOnce
    /\ ModelLoadedOnce
    /\ SameInstances

-----------------------------------------------------------------------------
(* The functions of text_quality.py applied to given texts: the texts are  *)
(* built of a few sentences, joined and ended in the ways that matter to   *)
(* the splitting at [.!?] followed by whitespace.                          *)

\* 'abcde fghijk'
SENTENCE_MEDIUM ==
    <<"a", "b", "c", "d", "e", " ", "f", "g", "h", "i", "j", "k">>

\* 'ij'
SENTENCE_TINY ==
    <<"i", "j">>

\* 'apple tart with cream'
CTX_TART ==
    <<"a", "p", "p", "l", "e", " ", "t", "a", "r", "t", " ", "w", "i", "t", "h", " ",
      "c", "r", "e", "a", "m">>

\* sentences that have no word in common
QualitySentences ==
    {SENTENCE_RELATED, SENTENCE_UNRELATED_LONG, SENTENCE_MEDIUM, SENTENCE_TINY, OUT_REFUSAL}

MaxSentences == 3
Separators == {<<".", " ">>, <<".", ".", " ">>}
Endings == {<<>>, <<".">>}

\* up to MaxSentences sentences, joined by a separator, with or without a
\* final full stop
ComposedTexts ==
    {join(sep, ss) \o ending :
        ss \in UNION {[1..n -> QualitySentences] : n \in 1..MaxSentences},
        sep \in Separators, ending \in Endings}

\* the same sentence five times
FiveFold(sentence, sep) == join(sep, [i \in 1..5 |-> sentence]) \o <<".">>

FiveFoldTexts ==
    {FiveFold(sentence, sep) :
        sentence \in QualitySentences \cup {SENTENCE_UNRELATED, SENTENCE_RELATED_LONG},
        sep \in {<<".", " ">>, <<".">>}}

\* five distinct sentences that share no words, in any order
FiveDistinctTexts ==
    {join(<<".", " ">>, ss) \o <<".">> :
        ss \in {f \in [1..5 -> QualitySentences] :
                  \A i \in 1..5, j \in 1..5 : i # j => f[i] # f[j]}}

\* '제공 문서 에서 질문': stop words only
OUT_STOPWORDS ==
    <<"K_je", "K_go_ng", " ", "K_mu_n", "K_seo", " ", "K_e", "K_seo", " ", "K_ji_l",
      "K_mu_n">>

QualityTexts ==
    {<<>>, <<" ", " ">>, OUT_STOPWORDS} \cup ComposedTexts \cup FiveFoldTexts \cup FiveDistinctTexts

QualityMaxLengths == {10, 20, 30}
QualityLengthLimits == {<<MIN_ANSWER_LENGTH, MAX_ANSWER_LENGTH>>, <<20, 40>>}
QualityContexts == {<<>>, <<CTX_APPLE>>, <<CTX_TART>>, <<CTX_APPLE, CTX_SKY>>}

InitQuality ==
    /\ qpc = "given"
    /\ given_text \in QualityTexts
    /\ given_args = NoArgs
    /\ returned = NoValue /\ returned_again = NoValue
    /\ UploadIdle
    /\ SingletonsIdle
    /\ ChunkerIdle
    /\ PipelineIdle /\ llm_manager = FALSE
    /\ loader = [model |-> FALSE, tokenizer |-> FALSE]

\* clean_repetitive_text(text)
call_clean_repetitive_text ==
    /\ qpc = "given"
    /\ qpc' = "cleaned"
    /\ returned' = clean_repetitive_text(given_text)
    /\ UNCHANGED <<given_text, given_args, returned_again>>
    /\ UNCHANGED <<chunker_vars, pipeline_vars, singleton_vars, upload_vars>>

\* clean_repetitive_text applied to what clean_repetitive_text returned
call_clean_repetitive_text_again ==
    /\ qpc = "cleaned"
    /\ qpc' = "cleaned_twice"
    /\ returned_again' = clean_repetitive_text(returned)
    /\ UNCHANGED <<given_text, given_args, returned>>
    /\ UNCHANGED <<chunker_vars, pipeline_vars, singleton_vars, upload_vars>>

\* detect_repetition(text), min_repeat_length at its default
call_detect_repetition ==
    /\ qpc = "given"
    /\ qpc' = "detected"
    /\ returned' = detect_repetition(given_text, MIN_REPEAT_LENGTH)
    /\ UNCHANGED <<given_text, given_args, returned_again>>
    /\ UNCHANGED <<chunker_vars, pipeline_vars, singleton_vars, upload_vars>>

\* post_process_answer(answer, max_length)
call_post_process_answer ==
    /\ qpc = "given"
    /\ qpc' = "processed"
    /\ \E limit \in QualityMaxLengths :
        /\ given_args' = [given_args EXCEPT !.max_length = limit]
        /\ returned' = post_process_answer(given_text, limit)
    /\ UNCHANGED <<given_text, returned_again>>
    /\ UNCHANGED <<chunker_vars, pipeline_vars, singleton_vars, upload_vars>>

\* validate_answer_quality(answer, min_length, max_length, contexts)
call_validate_answer_quality ==
    /\ qpc = "given"
    /\ qpc' = "validated"
    /\ \E limits \in QualityLengthLimits, ctxs \in QualityContexts :
        /\ given_args' = [min_length |-> limits[1], max_length |-> limits[2],
                          contexts |-> ctxs]
        /\ returned' = validate_answer_quality(given_text, limits[1], limits[2], ctxs)
    /\ UNCHANGED <<given_text, returned_again>>
    /\ UNCHANGED <<chunker_vars, pipeline_vars, singleton_vars, upload_vars>>

NextQuality ==
    \/ call_clean_repetitive_text
    \/ call_clean_repetitive_text_again
    \/ call_detect_repetition
    \/ call_post_process_answer
    \/ call_validate_answer_quality

SpecQuality == InitQuality /\ [][NextQuality]_vars

\* C17: clean_repetitive_text applied to its own result returns that result.
C17_CleanIdempotent ==
    qpc = "cleaned_twice" => returned_again = returned

\* C18: detect_repetition returns True for every text made of the same
\* sentence five times, whatever the length of the sentence, and False for a
\* text of five distinct sentences that share no words.
C18_FiveFoldDetected ==
    qpc = "detected" =>
        /\ given_text \in FiveFoldTexts => returned = TRUE
        /\ given_text \in FiveDistinctTexts => returned = FALSE

\* the prefixes of a split text that end where a sentence or its delimiter
\* ends, trimmed
WholeSentencePrefixes(pieces) ==
    {strip(join(<<>>, SubSeq(pieces, 1, j))) : j \in 0..Len(pieces)}

\* C19: when the cleaned text is longer than max_length, post_process_answer
\* returns at most max_length characters, and what it returns is a prefix of
\* the cleaned text made of whole sentences.
C19_TruncatedWithinMaxLength ==
    qpc = "processed" =>
        \A cleaned \in {clean_repetitive_text(given_text)} :
            Len(cleaned) > given_args.max_length =>
                /\ Len(returned) <= given_args.max_length
                /\ returned \in WholeSentencePrefixes(re_split_keep(cleaned))

\* the words of a text, lower-cased, stop words removed
MeaningfulWords(text) == ToSet(findall_words(lower(text))) \ STOPWORDS

\* fewer than 20% of the answer's meaningful words occur in the contexts
\* (no answer word, no test)
SmallShareInContexts(answer_words, context_words) ==
    /\ answer_words # {}
    /\ Cardinality(answer_words \cap context_words) * 5 < Cardinality(answer_words)

\* the overlap of the two sets of words, as a share of their union, is below 20%
SmallJaccardOverlap(answer_words, context_words) ==
    Cardinality(answer_words \cap context_words) * 5
        < Cardinality(answer_words \cup context_words)

\* the reasons to reject an answer, the overlap test being given
QualityRule(trimmed, args, low_overlap) ==
    \/ trimmed = <<>>
    \/ Len(trimmed) < args.min_length
    \/ Len(trimmed) > args.max_length
    \/ detect_repetition(trimmed, MIN_REPEAT_LENGTH)
    \/ args.contexts # <<>> /\ low_overlap

\* C20 as stated: validate_answer_quality rejects exactly the answers that
\* are blank, too short, too long, repetitive, or, contexts being supplied,
\* whose overlap ratio with the contexts' meaningful words is below 0.20.
C20_InvalidExactlyWhenLowOverlap ==
    qpc = "validated" =>
        (returned.is_valid = FALSE <=>
            QualityRule(strip(given_text), given_args,
                        SmallJaccardOverlap(MeaningfulWords(strip(given_text)),
                                            MeaningfulWords(join(<<" ">>, given_args.contexts)))))

\* C20, amended: the ratio is the share of the answer's meaningful words that
\* occur among the contexts' meaningful words, and an answer without
\* meaningful words is not tested for overlap.
C20_InvalidExactlyWhenSmallShare ==
    qpc = "validated" =>
        (returned.is_valid = FALSE <=>
            QualityRule(strip(given_text), given_args,
                        SmallShareInContexts(MeaningfulWords(strip(given_text)),
                                             MeaningfulWords(join(<<" ">>, given_args.contexts)))))

C20_Witness ==
    /\ qpc = "validated"
    /\ given_text = SENTENCE_RELATED
    /\ given_args = [min_length |-> MIN_ANSWER_LENGTH, max_length |-> MAX_ANSWER_LENGTH,
                     contexts |-> <<CTX_TART>>]
    /\ returned = [is_valid |-> TRUE, error |-> ""]

-----------------------------------------------------------------------------
(* RAGPromptTemplate.build_simple_response applied to given arguments: the  *)
(* query is given_text, contexts and max_context_length are in given_args.  *)

MaxContexts == 4
PromptContexts == {CTX_APPLE, CTX_SKY, CTX_DOT, CTX_BLANK}
PromptContextLists == UNION {[1..n -> PromptContexts] : n \in 0..MaxContexts}
PromptMaxContextLengths == {MAX_CONTEXT_LENGTH, 30}

InitPrompt ==
    /\ qpc = "asked"
    /\ given_text \in {QUERY_APPLE, <<>>}
    /\ \E ctxs \in PromptContextLists, limit \in PromptMaxContextLengths :
        given_args = [min_length |-> 0, max_length |-> limit, contexts |-> ctxs]
    /\ returned = NoValue /\ returned_again = NoValue
    /\ UploadIdle
    /\ SingletonsIdle
    /\ ChunkerIdle
    /\ PipelineIdle /\ llm_manager = TRUE
    /\ loader = [model |-> FALSE, tokenizer |-> FALSE]

\* contexts[:3]
first_three(contexts) == SubSeq(contexts, 1, IF Len(contexts) < 3 THEN Len(contexts) ELSE 3)

\* build_simple_response(query, contexts, max_context_length)
call_build_simple_response ==
    /\ qpc = "asked"
    /\ qpc' = "built"
    /\ returned' = build_simple_response(given_text, given_args.contexts,
                                         given_args.max_length)
    /\ UNCHANGED <<given_text, given_args, returned_again>>
    /\ UNCHANGED <<chunker_vars, pipeline_vars, singleton_vars, upload_vars>>

\* build_simple_response(query, contexts[:3], max_context_length): the same
\* call without the contexts after the third
call_build_simple_response_first_three ==
    /\ qpc = "built"
    /\ qpc' = "built_twice"
    /\ returned_again' = build_simple_response(given_text, first_three(given_args.contexts),
                                               given_args.max_length)
    /\ UNCHANGED <<given_text, given_args, returned>>
    /\ UNCHANGED <<chunker_vars, pipeline_vars, singleton_vars, upload_vars>>

NextPrompt ==
    \/ call_build_simple_response
    \/ call_build_simple_response_first_three

SpecPrompt == InitPrompt /\ [][NextPrompt]_vars

\* "[문서 i]\n" followed by the i-th context trimmed, without blank lines, cut
\* after max_context_length // 3 characters (an ellipsis marks the cut)
NumberedContext(i, ctx, max_context_length) ==
    <<"[", "K_mu_n", "K_seo", " ", Digits[i], "]", "\n">>
        \o clean_context(ctx, max_context_length)

\* C21: build_simple_response returns the fixed wording for no contexts;
\* otherwise a non-empty text holding the query and the first three contexts,
\* cleaned and numbered 1..3, which the contexts after the third do not
\* change; no collaborator is called.
C21_SimpleResponseOfFirstThree ==
    /\ qpc \in {"built", "built_twice"} =>
        /\ calls = NoCalls
        /\ given_args.contexts = <<>> => returned = NO_INFORMATION_ANSWER
        /\ given_args.contexts # <<>> =>
            /\ returned # <<>>
            /\ returned # NO_INFORMATION_ANSWER
            /\ startswith(returned, SIMPLE_RESPONSE_HEAD \o given_text \o SIMPLE_RESPONSE_MID)
            /\ \A i \in 1..Len(first_three(given_args.contexts)) :
                 /\ contains(returned, NumberedContext(i, given_args.contexts[i],
                                                      given_args.max_length))
                 /\ Len(clean_context(given_args.contexts[i], given_args.max_length))
                        <= given_args.max_length \div 3 + 3
            /\ ~contains(returned, <<"[", "K_mu_n", "K_seo", " ", "4", "]">>)
    /\ qpc = "built_twice" => returned_again = returned

C21_Witness ==
    /\ qpc = "built_twice"
    /\ Len(given_args.contexts) = 4
    /\ given_args.contexts[4] # given_args.contexts[3]
    /\ given_args.max_length = 30
    /\ given_args.contexts[1] = CTX_SKY
    /\ returned_again = returned
    /\ returned # NO_INFORMATION_ANSWER

-----------------------------------------------------------------------------
(* DocumentService.upload_document (document_service.py) over              *)
(* FileService.process_file (file_service.py): the file's markdown is      *)
(* chunked by the MarkdownChunker actions above, then stored.              *)

\* FileService() has built its chunker; upload_document has called
\* process_file, which is about to chunk the markdown of the file
InitUpload ==
    /\ cpc = "ready"
    /\ chunk_size \in 1..MaxChunkSize
    /\ chunk_overlap \in 0..(chunk_size - 1)
    /\ markdown_content = <<>> /\ sections = <<>> /\ section_index = 0
    /\ start = 0 /\ loop_pass = 0 /\ chunks = <<>>
    /\ PipelineIdle /\ llm_manager = FALSE
    /\ loader = [model |-> FALSE, tokenizer |-> FALSE]
    /\ SingletonsIdle /\ QualityIdle
    /\ upc = "processing" /\ save_calls = 0 /\ document = NoDocument /\ upload_error = ""

\* upload_document going on to save_chunks whatever process_file returned
upload_chunks_unchecked ==
    /\ upc = "processing"
    /\ cpc = "done"
    /\ upc' = "saving"
    /\ UNCHANGED <<save_calls, document, upload_error>>
    /\ UNCHANGED <<chunker_vars, pipeline_vars, singleton_vars, quality_vars>>

\* process_file has returned (lines 91-122: one Chunk per chunk of the
\* chunker, or [] for blank markdown); upload_document, lines 83-84
upload_chunks_check ==
    /\ upc = "processing"
    /\ cpc = "done"
    /\ IF chunks = <<>>
       THEN /\ upc' = "raised"
            /\ upload_error' = "ValueError: no text extracted"
       ELSE /\ upc' = "saving"
            /\ UNCHANGED upload_error
    /\ UNCHANGED <<save_calls, document>>
    /\ UNCHANGED <<chunker_vars, pipeline_vars, singleton_vars, quality_vars>>

\* line 87: await self.vector_repository.save_chunks(chunks), which stores
\* the chunks or raises (no client, no chunk with text, a failing store)
upload_save_chunks ==
    /\ upc = "saving"
    /\ save_calls' = save_calls + 1
    /\ \/ upc' = "saved" /\ UNCHANGED upload_error
       \/ upc' = "raised" /\ upload_error' = "save_chunks raised"
    /\ UNCHANGED document
    /\ UNCHANGED <<chunker_vars, pipeline_vars, singleton_vars, quality_vars>>

\* lines 92-104: the Document
upload_return ==
    /\ upc = "saved"
    /\ upc' = "returned"
    /\ document' = [returned |-> TRUE, chunks_count |-> Len(chunks)]
    /\ UNCHANGED <<save_calls, upload_error>>
    /\ UNCHANGED <<chunker_vars, pipeline_vars, singleton_vars, quality_vars>>

NextUpload ==
    \/ chunk_markdown
    \/ chunk_section_enter
    \/ chunk_section_step
    \/ upload_chunks_check
    \/ upload_save_chunks
    \/ upload_return

SpecUpload == InitUpload /\ [][NextUpload]_vars

\* upload_document has gone past the test of what process_file returned
ChunksChecked == upc \in {"saving", "saved", "returned", "raised"}

\* C22: upload_document raises ValueError when process_file yields no
\* chunks, and save_chunks is then never invoked; when chunks are produced
\* save_chunks is invoked exactly once, and the Document returned counts the
\* chunks produced (> 0).
C22_UploadSavesOnce ==
    /\ ChunksChecked /\ chunks = <<>> =>
        /\ upc = "raised"
        /\ upload_error = "ValueError: no text extracted"
        /\ save_calls = 0
        /\ document = NoDocument
    /\ ChunksChecked /\ chunks # <<>> =>
        /\ save_calls = (IF upc = "saving" THEN 0 ELSE 1)
        /\ upload_error # "ValueError: no text extracted"
    /\ upc = "returned" =>
        /\ save_calls = 1
        /\ document.returned
        /\ document.chunks_count = Len(chunks)
        /\ document.chunks_count > 0
    /\ upc # "returned" => document = NoDocument

C22_Witness ==
    /\ upc = "returned"
    /\ save_calls = 1
    /\ document.chunks_count = 2
    /\ Len(chunks) = 2

-----------------------------------------------------------------------------
(* The order of the stages of RAGPipeline.run.                             *)

\* the place of a position of run in START -> RETRIEVED -> SCORE_FILTERED ->
\* CONTENT_FILTERED -> (generation) -> answered -> RETURNED / raised
StageRank(position) ==
    CASE position = "idle" -> 0
      [] position = "start" -> 1
      [] position = "retrieved" -> 2
      [] position = "score_filtered" -> 3
      [] position = "content_filtered" -> 4
      [] position = "initialize" -> 5
      [] position = "generating" -> 6
      [] position = "answered" -> 7
      [] position = "returned" -> 8
      [] position = "raised" -> 8

\* a call of run is over, or none was made
RunOver == pc \in {"idle", "returned", "raised"}

\* the generator (its load or its generation) is in use or was used in this run
GeneratorTouched ==
    calls.initialize > 0 \/ calls.generate > 0 \/ pc \in {"initialize", "generating"}

\* what holds at every point of a run
StageFacts ==
    /\ calls.search <= 1 /\ calls.generate <= 1 /\ calls.initialize <= 1
    /\ StageRank(pc) >= 2 /\ pc # "raised" => calls.search = 1
    /\ StageRank(pc) <= 1 => calls.search = 0 /\ calls.generate = 0
    /\ GeneratorTouched =>
        /\ calls.search = 1
        /\ ValidCall
        /\ search_results # <<>> /\ filtered_results # <<>> /\ valid_contexts # <<>>
        /\ use_llm /\ llm_manager

\* what holds of every step of a run: a later stage is entered, the search
\* is made on leaving START and the generator is called after it
StageStep ==
    /\ ~RunOver => StageRank(pc') > StageRank(pc)
    /\ RunOver => pc' \in {"start", "raised"}
    /\ calls'.search > calls.search => pc = "start" /\ calls'.search = 1
    /\ calls'.generate > calls.generate =>
        /\ pc = "generating" /\ pc' = "answered"
        /\ calls.search = 1 /\ calls'.generate = 1

\* C23: a run goes through START, RETRIEVED, SCORE_FILTERED, CONTENT_FILTERED,
\* generation or the template, RETURNED in this order, leaving early only; the
\* search is made once and before any generator call; the generator is called
\* at most once and only when the three sets are non-empty and generation is
\* enabled and configured; no stage is entered twice.
C23_StagesInOrder == [](StageFacts) /\ [][StageStep]_vars

C23_Witness ==
    /\ pc = "returned"
    /\ ValidCall
    /\ calls.search = 1 /\ calls.initialize = 1 /\ calls.generate = 1
    /\ generated = OUT_GOOD
    /\ result.answer = OUT_GOOD

-----------------------------------------------------------------------------
(* The canned answers of RAGPipeline.run when a filter leaves nothing      *)

\* the results of the current search that pass the score filter
ScoreSurvivors == score_filtered(search_results)

\* a text the content filter of run rejects (lines 274-277)
RejectedByContentFilter(ctx) ==
    Len(strip(ctx)) < MIN_CONTEXT_LENGTH \/ startswith(strip(ctx), <<".">>)

\* every result that passed the score filter is rejected by the content filter
AllSurvivorsRejected ==
    /\ ScoreSurvivors # <<>>
    /\ \A i \in DOMAIN ScoreSurvivors : RejectedByContentFilter(ScoreSurvivors[i].text)

\* the search of the current call has returned
Searched == StageRank(pc) >= 2 /\ pc # "raised"

\* C24: when at least one result passes the score filter and the content
\* filter rejects every one of them, run returns the no-useful-information
\* answer with no contexts and the score-filtered list (non-empty) as sources,
\* and neither the loader nor the generator is called; when the score filter
\* leaves nothing, the sources are empty.
C24_CannedAnswerSources ==
    /\ Searched /\ AllSurvivorsRejected =>
           /\ calls.initialize = 0 /\ calls.generate = 0
           /\ pc \in {"retrieved", "score_filtered", "returned"}
           /\ pc = "returned" =>
                  /\ result.answer = NOTHING_USEFUL_ANSWER
                  /\ result.contexts = <<>>
                  /\ result.sources = ScoreSurvivors
                  /\ result.sources # <<>>
    /\ Searched /\ search_results # <<>> /\ ScoreSurvivors = <<>> =>
           /\ calls.initialize = 0 /\ calls.generate = 0
           /\ pc \in {"retrieved", "returned"}
           /\ pc = "returned" =>
                  /\ result.answer = NOTHING_RELEVANT_ANSWER
                  /\ result.contexts = <<>>
                  /\ result.sources = <<>>

C24_Witness ==
    /\ pc = "returned"
    /\ use_llm /\ llm_manager
    /\ search_results = <<SearchResult(CTX_SHORT, 90), SearchResult(CTX_DOT, 90)>>
    /\ result.answer = NOTHING_USEFUL_ANSWER
    /\ result.contexts = <<>>
    /\ result.sources = search_results

-----------------------------------------------------------------------------
(* The windows of MarkdownChunker._chunk_section                           *)

\* one pass of the while loop that is followed by another pass over the
\* same section
NextIteration == cpc = "loop" /\ cpc' = "loop"

\* C25: while _chunk_section splits a section longer than chunk_size, the
\* window start is never negative and each iteration starts after the one
\* before it, also when the window end was moved back to a "." or a "\n".
C25_WindowStartIncreases ==
    [][NextIteration => start' > start /\ start' >= 0]_vars

\* the summed length of a list of chunks
RECURSIVE TotalLength(_)
TotalLength(list) ==
    IF list = <<>> THEN 0 ELSE Len(list[1]) + TotalLength(Tail(list))

\* a text without whitespace: it is one section, and no window loses a
\* character to strip()
NoWhiteSpace(text) == \A i \in DOMAIN text : text[i] \notin WhiteSpace

\* the windows of a section longer than chunk_size: the first starts at 0,
\* each window is non-empty, the next starts at or before its end
\* (chunk_overlap before it when that is not negative), and the loop is left
\* only after a window that reaches the end of the section
WindowStep ==
    /\ cpc = "section" /\ cpc' = "loop" => start' = 0
    /\ cpc = "loop" =>
           LET section == sections[section_index]
               end == window_end(section, start)
           IN  /\ Len(section) > chunk_size
               /\ start >= 0 /\ start < Len(section) /\ end > start
               /\ start' <= end
               /\ (end - chunk_overlap >= 0 => start' = end - chunk_overlap)
               /\ (cpc' # "loop" => end >= Len(section))

-----------------------------------------------------------------------------
(* The lazy load of the generation model, one caller at a time: calls of   *)
(* RAGPipeline.generate that reach line 104, of QwenManager.initialize and *)
(* of ModelLoader.clear_cache, each begun after the one before it ended.   *)

\* Bound of the number of times the weights are loaded.
MaxLoads == 8

\* the caller
Caller == 1

\* no call is in progress: none was made since construction or clear_cache,
\* the last one returned, or the last one raised
Resting == {"idle", "done", "raised"}

\* the ModelLoader exists (QwenManager.__init__, qwen.py line 226) and
\* nothing is loaded
InitLoader ==
    /\ tpc = [t \in Threads |-> IF t = Caller THEN "idle" ELSE "start"]
    /\ ret = [t \in Threads |-> "none"]
    /\ obtained = [t \in Threads |-> [eg |-> 0, vr |-> 0, ml |-> 0]]
    /\ embedding_generator = [instance |-> 0, lock |-> 0, built |-> 0]
    /\ vector_repository = [instance |-> 0, lock |-> 0, built |-> 0]
    /\ model_loader = [instance |-> 1, lock |-> 0, created |-> 1, initialized |-> TRUE,
                       model |-> FALSE, tokenizer |-> FALSE, loads |-> 0]
    /\ UploadIdle
    /\ QualityIdle
    /\ ChunkerIdle
    /\ PipelineIdle /\ llm_manager = TRUE
    /\ loader = [model |-> FALSE, tokenizer |-> FALSE]

\* RAGPipeline.generate called with use_llm, a generator and usable contexts:
\* pipeline.py lines 90-102
call_generate(t) ==
    /\ tpc[t] \in Resting
    /\ goto(t, "generate")
    /\ UNCHANGED <<ret, obtained, embedding_generator, vector_repository, model_loader>>
    /\ UNCHANGED <<chunker_vars, pipeline_vars, quality_vars, upload_vars>>

\* QwenManager.initialize called directly
call_initialize(t) ==
    /\ tpc[t] \in Resting
    /\ goto(t, "initialize")
    /\ UNCHANGED <<ret, obtained, embedding_generator, vector_repository, model_loader>>
    /\ UNCHANGED <<chunker_vars, pipeline_vars, quality_vars, upload_vars>>

\* clear_cache that forgets the tokenizer and keeps the model
clear_cache_keeping_model(t) ==
    /\ tpc[t] \in Resting
    /\ model_loader.loads < MaxLoads
    /\ model_loader' = [model_loader EXCEPT !.tokenizer = FALSE]
    /\ goto(t, "idle")
    /\ UNCHANGED <<ret, obtained, embedding_generator, vector_repository>>
    /\ UNCHANGED <<chunker_vars, pipeline_vars, quality_vars, upload_vars>>

\* ModelLoader.clear_cache, qwen.py lines 173-187
clear_cache(t) ==
    /\ tpc[t] \in Resting
    /\ model_loader.loads < MaxLoads
    /\ model_loader' = [model_loader EXCEPT !.model = FALSE, !.tokenizer = FALSE]
    /\ goto(t, "idle")
    /\ UNCHANGED <<ret, obtained, embedding_generator, vector_repository>>
    /\ UNCHANGED <<chunker_vars, pipeline_vars, quality_vars, upload_vars>>

\* lines 89-93 and 153-155: AutoTokenizer.from_pretrained raises
load_model_tokenizer_raises(t) ==
    /\ tpc[t] = "load_tokenizer"
    /\ goto(t, "raised")
    /\ UNCHANGED <<ret, obtained, embedding_generator, vector_repository, model_loader>>
    /\ UNCHANGED <<chunker_vars, pipeline_vars, quality_vars, upload_vars>>

\* lines 118-141 and 153-155: from_pretrained of the model raises, the
\* tokenizer stays
load_model_weights_raises(t) ==
    /\ tpc[t] = "load_weights"
    /\ goto(t, "raised")
    /\ UNCHANGED <<ret, obtained, embedding_generator, vector_repository, model_loader>>
    /\ UNCHANGED <<chunker_vars, pipeline_vars, quality_vars, upload_vars>>

\* lines 143-155: the weights are loaded and assigned, then the move to the
\* device or eval() raises
load_model_move_raises(t) ==
    /\ tpc[t] = "load_weights"
    /\ model_loader' = [model_loader EXCEPT !.model = TRUE,
                                              !.loads = model_loader.loads + 1]
    /\ goto(t, "raised")
    /\ UNCHANGED <<ret, obtained, embedding_generator, vector_repository>>
    /\ UNCHANGED <<chunker_vars, pipeline_vars, quality_vars, upload_vars>>

NextLoader ==
    \/ call_generate(Caller)
    \/ call_initialize(Caller)
    \/ clear_cache(Caller)
    \/ generate_is_loaded_check(Caller)
    \/ QwenManager_initialize_check(Caller)
    \/ load_model_check(Caller)
    \/ load_model_tokenizer(Caller)
    \/ load_model_tokenizer_raises(Caller)
    \/ load_model_weights(Caller)
    \/ load_model_weights_raises(Caller)
    \/ load_model_move_raises(Caller)

SpecLoader == InitLoader /\ [][NextLoader]_vars

\* ModelLoader.is_loaded, qwen.py lines 169-171
LoaderIsLoaded == model_loader.model /\ model_loader.tokenizer

\* how far a call has come
CallRank(position) ==
    CASE position \in Resting -> 0
      [] position = "generate" -> 1
      [] position = "initialize" -> 2
      [] position = "load_model" -> 3
      [] position = "load_tokenizer" -> 4
      [] position = "load_weights" -> 5

\* one step of a call: the weights are loaded only by a call that found the
\* loader not loaded, a call goes forward (so it loads at most once), and a
\* loaded loader is left alone by everything but clear_cache
LazyLoadStep ==
    /\ model_loader'.loads # model_loader.loads =>
           /\ ~LoaderIsLoaded
           /\ tpc[Caller] = "load_weights"
           /\ model_loader'.loads = model_loader.loads + 1
    /\ (~model_loader.model /\ model_loader'.model)
           <=> model_loader'.loads = model_loader.loads + 1
    /\ tpc[Caller] \notin Resting =>
           \/ CallRank(tpc'[Caller]) > CallRank(tpc[Caller])
           \/ tpc'[Caller] \in {"done", "raised"}
    /\ LoaderIsLoaded =>
           \/ model_loader' = model_loader
           \/ tpc[Caller] \in Resting /\ tpc'[Caller] = "idle" /\ ~LoaderIsLoaded'

\* C27: over any sequence of generations, QwenManager.initialize calls and
\* clear_cache calls, the weights are loaded only by a call that found the
\* loader not loaded; a loaded loader is loaded again by nothing until
\* clear_cache, and a call that returns after it has loaded the weights once
\* and leaves the loader loaded.
C27_LazyLoadIdempotent ==
    /\ [][LazyLoadStep]_vars
    /\ [](tpc[Caller] = "done" => LoaderIsLoaded)
    /\ [](model_loader.loads <= MaxLoads)

\* loaded, cleared, and loaded once more by the next call
C27_Witness ==
    /\ tpc[Caller] = "done"
    /\ LoaderIsLoaded
    /\ model_loader.loads = 2

-----------------------------------------------------------------------------
(* The chunks chunk_markdown returns                                       *)

\* C28: every chunk chunk_markdown emits for a non-blank input has a
\* non-empty text, whatever the input has before its first heading and
\* whatever its sections are made of.
C28_ChunksNotEmpty ==
    strip(markdown_content) # <<>> => \A i \in DOMAIN chunks : chunks[i] # <<>>

-----------------------------------------------------------------------------
(* src/src/dependencies.py: the getters and cleanup_singletons             *)
(* The attribute _instance of a getter is absent (0), None or an instance  *)
(* (its number).                                                           *)

\* _instance = None
NoneInstance == -1

\* the caller is done with what get_vector_repository returned and makes its
\* next call
caller_returns(t) ==
    /\ tpc[t] = "ml_new"
    /\ goto(t, "start")
    /\ UNCHANGED <<ret, obtained, embedding_generator, vector_repository, model_loader>>
    /\ UNCHANGED <<chunker_vars, pipeline_vars, quality_vars, upload_vars>>

\* cleanup_singletons, lines 71-90: where the attribute exists the instance
\* is cleaned up and the attribute set to None
cleanup_singletons(t) ==
    /\ tpc[t] = "start"
    /\ \/ embedding_generator.instance \notin {0, NoneInstance}
       \/ vector_repository.instance \notin {0, NoneInstance}
    /\ embedding_generator' =
           IF embedding_generator.instance # 0
           THEN [embedding_generator EXCEPT !.instance = NoneInstance]
           ELSE embedding_generator
    /\ vector_repository' =
           IF vector_repository.instance # 0
           THEN [vector_repository EXCEPT !.instance = NoneInstance]
           ELSE vector_repository
    /\ UNCHANGED <<tpc, ret, obtained, model_loader>>
    /\ UNCHANGED <<chunker_vars, pipeline_vars, quality_vars, upload_vars>>

NextCleanup ==
    \E t \in Threads :
        \/ thread_start(t)
        \/ get_embedding_generator_check(t)
        \/ get_embedding_generator_acquire(t)
        \/ get_embedding_generator_locked(t)
        \/ get_vector_repository_check(t)
        \/ get_vector_repository_acquire(t)
        \/ get_vector_repository_locked(t)
        \/ get_vector_repository_build(t)
        \/ caller_returns(t)
        \/ cleanup_singletons(t)

SpecCleanup == InitThreads /\ [][NextCleanup]_vars

\* C29: whatever the order of the calls of get_embedding_generator,
\* get_vector_repository and cleanup_singletons, a getter never returns None:
\* after cleanup_singletons the next call of a getter builds a new instance.
C29_GettersReturnInstances ==
    \A t \in Threads :
        /\ obtained[t].eg # NoneInstance
        /\ obtained[t].vr # NoneInstance

-----------------------------------------------------------------------------
(* What RAGPipeline.generate returns                                       *)

\* the answer is text of the generator: its output or the post-processed
\* output
FromGenerator ==
    /\ Generated
    /\ answer \in {generated, post_process_answer(generated, POST_PROCESS_MAX_LENGTH)}

\* C30: an answer of generate that is the generator's text (post-processed or
\* raw) and not the template answer has at least 10 characters after trimming
\* and is not flagged by detect_repetition; any other answer generate gives
\* over surviving contexts is the template answer of the query and those
\* contexts.
C30_GeneratorTextIsSound ==
    Answered /\ valid_contexts # <<>> =>
        /\ \/ answer = TemplateAnswer
           \/ /\ FromGenerator
              /\ Len(strip(answer)) >= MIN_ANSWER_LENGTH
              /\ ~detect_repetition(answer, MIN_REPEAT_LENGTH)
        /\ pc = "returned" => result.answer = answer

\* the post-processed output, shorter than the raw one, was returned
C30_Witness ==
    /\ pc = "returned"
    /\ Generated
    /\ result.answer = post_process_answer(generated, POST_PROCESS_MAX_LENGTH)
    /\ result.answer # generated
    /\ result.answer # TemplateAnswer
    /\ Len(strip(result.answer)) >= MIN_ANSWER_LENGTH


=============================================================================
